---- MODULE Spec2Model ----
(***************************************************************************)
(* State-machine model of the YggAPI qBittorrent search plugin             *)
(* (src/yggapi.py): the expiring URL cache (URLCache), the URL discovery   *)
(* (YggURLFetcher.get_ygg_url), the plugin construction (yggapi.__init__)  *)
(* the paginated search loop (yggapi.search / _fetch_page) and the helpers  *)
(* that resolve a category, build the URL of a page and convert a record.  *)
(*                                                                         *)
(* Text is modelled as a sequence of lexemes: a lexeme is either a maximal *)
(* run of letters (a word) or a single non-letter character, so that the   *)
(* regular expressions of get_ygg_url are computed on the text itself.     *)
(* Time is the local wall clock in hours.                                  *)
(***************************************************************************)
EXTENDS Integers, Sequences, FiniteSets, TLC

VARIABLES
    cacheFile,      \* content of the file URL_CACHE_FILE
    now,            \* datetime.now(), in hours
    call,           \* the call that has just returned: its inputs and its result
    ygg_url,        \* yggapi._ygg_url of the plugin instance (NoInstance before __init__)
    pc,             \* "idle", "fetching" while search() is inside its loop, "done" at
                    \* its end, "raised" when an exception leaves it
    current_page,   \* yggapi._current_page
    attempt,        \* loop variable of _fetch_page
    saved,          \* history: the last URL written to the cache, when, and the one before
    per_page,       \* yggapi._per_page
    max_page,       \* yggapi._max_page (0 = unlimited)
    results,        \* len(results) of the page _fetch_page returned last
    calls,          \* history: retrieve_url calls made for the page being fetched
    emitted,        \* history: records handed to prettyPrinter by the running search
    response,       \* the text of a profile page handed to the extraction
    trace,          \* history: the fetches, sleeps and emissions of the running search
    arg,            \* the value a coercion or a lookup of the plugin is applied to
    discovery,      \* history: what __init__ of the plugin instance did to discover
                    \* the site URL
    shared          \* the cache file as the text it holds, and the processes that
                    \* read and write it at the same time

vars == <<cacheFile, now, call, ygg_url, pc, current_page, attempt, saved,
          per_page, max_page, results, calls, emitted, response, trace, arg,
          discovery, shared>>

----------------------------------------------------------------------------
(* Bounds of the model *)

\* clock granularity: the clock advances in steps of 1/TicksPerTTL of the cache duration
TicksPerTTL == 2
\* the clock stops after MaxTicks steps
MaxTicks == 3
\* search() is followed up to this page
MaxPages == 2
\* page sizes a caller sets, next to the default one, go up to this
SmallPerPage == 2

(* Program constants *)

URL_CACHE_DURATION_HOURS == 24
DEFAULT_PER_PAGE == 100
MAX_RETRIES == 3

TickHours == URL_CACHE_DURATION_HOURS \div TicksPerTTL
MaxTime == MaxTicks * TickHours

----------------------------------------------------------------------------
(* Text: lexemes *)

\* str.lower() / re.IGNORECASE on one lexeme
Lower(l) ==
    CASE l = "YggTorrent" -> "yggtorrent"
      [] l = "HTTPS" -> "https"
      [] l = "No" -> "no"
      [] OTHER -> l

Words == {"https", "http", "HTTPS", "www", "yggtorrent", "YggTorrent", "org", "fi",
          "o", "meta", "property", "og", "url", "content", "href", "website",
          "forum", "example", "com", "a", "No", "link", "hello"}

\* [a-z] under re.IGNORECASE, on a whole lexeme

\* len() of a word
Letters(l) ==
    CASE l \in {"o", "a"} -> 1
      [] l \in {"fi", "og", "No"} -> 2
      [] l \in {"www", "org", "url", "com"} -> 3
      [] l \in {"http", "meta", "href", "link"} -> 4
      [] l \in {"https", "HTTPS", "forum", "hello"} -> 5
      [] l \in {"content", "website", "example"} -> 7
      [] l = "property" -> 8
      [] OTHER -> 10

DQ == "\""
SQ == "'"

\* \s
IsSpace(l) == l = " "

\* the lexeme at position i, "" past the end of the text
At(b, i) == IF i \in 1..Len(b) THEN b[i] ELSE ""

\* the literal lits matches b at position i, ignoring case
Lit(b, i, lits) ==
    \A k \in 1..Len(lits) : Lower(At(b, i + k - 1)) = lits[k]

\* the first position >= i that holds no whitespace
RECURSIVE SkipSpaces(_, _)
SkipSpaces(b, i) == IF IsSpace(At(b, i)) THEN SkipSpaces(b, i + 1) ELSE i

\* the first position >= i that holds no letter
RECURSIVE SkipWords(_, _)
SkipWords(b, i) == IF (At(b, i) \in Words) THEN SkipWords(b, i + 1) ELSE i

RECURSIVE LetterCount(_, _, _)
LetterCount(b, i, j) ==
    IF i >= j THEN 0 ELSE Letters(b[i]) + LetterCount(b, i + 1, j)

\* the first position >= i that holds a lexeme of stop, Len(b)+1 when there is none
RECURSIVE NextIn(_, _, _)
NextIn(b, i, stop) ==
    IF i > Len(b) \/ b[i] \in stop THEN i ELSE NextIn(b, i + 1, stop)

PRODUCT == "yggtorrent"

\* 'yggtorrent' in s.lower()
ContainsProduct(s) == \E i \in 1..Len(s) : Lower(s[i]) = PRODUCT

NoMatch == [ok |-> FALSE, cap |-> <<>>, end |-> 0]

----------------------------------------------------------------------------
(* The extraction rules of get_ygg_url, as re.findall computes them *)

\* https?://
IsScheme(b, i) ==
    /\ Lower(At(b, i)) \in {"https", "http"}
    /\ Lit(b, i + 1, <<":", "/", "/">>)

IsQuote(l) == l \in {DQ, SQ}

\* (https?://[^...]*yggtorrent[^...]*) followed by the closing quote: the group
\* runs from c to the first lexeme of stop, and must hold the product name
Capture(b, c, stop) ==
    LET q == NextIn(b, c + 4, stop)
    IN  IF /\ IsScheme(b, c)
           /\ q <= Len(b)
           /\ \E r \in (c + 4)..(q - 1) : Lower(b[r]) = PRODUCT
        THEN [ok |-> TRUE, cap |-> SubSeq(b, c, q - 1), end |-> q + 1]
        ELSE NoMatch

\* MatchBareDomain with [a-z]+ in place of [a-z]{2,}
MatchBareDomain_ShortTld(b, i) ==
    LET j == IF Lit(b, i + 4, <<"www", ".">>) THEN i + 6 ELSE i + 4
        e == SkipWords(b, j + 2)
        end == IF At(b, e) = "/" THEN e + 1 ELSE e
    IN  IF /\ IsScheme(b, i)
           /\ Lit(b, j, <<PRODUCT, ".">>)
           /\ LetterCount(b, j + 2, e) >= 1
        THEN [ok |-> TRUE, cap |-> SubSeq(b, i, end - 1), end |-> end]
        ELSE NoMatch

\* r'https?://(?:www\.)?yggtorrent\.[a-z]{2,}/?' : no group, the match itself
MatchBareDomain(b, i) ==
    LET j == IF Lit(b, i + 4, <<"www", ".">>) THEN i + 6 ELSE i + 4
        e == SkipWords(b, j + 2)
        end == IF At(b, e) = "/" THEN e + 1 ELSE e
    IN  IF /\ IsScheme(b, i)
           /\ Lit(b, j, <<PRODUCT, ".">>)
           /\ LetterCount(b, j + 2, e) >= 2
        THEN [ok |-> TRUE, cap |-> SubSeq(b, i, end - 1), end |-> end]
        ELSE NoMatch

\* r'<meta\s+property=["\']og:url["\']\s+content=["\'](https?://[^"\']*yggtorrent[^"\']*)["\']'
MatchMetaTag(b, i) ==
    LET s1 == SkipSpaces(b, i + 2)
        s2 == SkipSpaces(b, s1 + 7)
    IN  IF /\ Lit(b, i, <<"<", "meta">>)
           /\ IsSpace(At(b, i + 2))
           /\ Lit(b, s1, <<"property", "=">>)
           /\ IsQuote(At(b, s1 + 2))
           /\ Lit(b, s1 + 3, <<"og", ":", "url">>)
           /\ IsQuote(At(b, s1 + 6))
           /\ IsSpace(At(b, s1 + 7))
           /\ Lit(b, s2, <<"content", "=">>)
           /\ IsQuote(At(b, s2 + 2))
        THEN Capture(b, s2 + 3, {DQ, SQ})
        ELSE NoMatch

\* r'href=["\'](https?://[^"\']*yggtorrent[^"\']*)["\']'
MatchHref(b, i) ==
    IF Lit(b, i, <<"href", "=">>) /\ IsQuote(At(b, i + 2))
    THEN Capture(b, i + 3, {DQ, SQ})
    ELSE NoMatch

\* r'"website"\s*:\s*"(https?://[^"]*yggtorrent[^"]*)"'
MatchWebsite(b, i) ==
    LET s1 == SkipSpaces(b, i + 3)
        s2 == SkipSpaces(b, s1 + 1)
    IN  IF /\ Lit(b, i, <<DQ, "website", DQ>>)
           /\ At(b, s1) = ":"
           /\ At(b, s2) = DQ
        THEN Capture(b, s2 + 1, {DQ})
        ELSE NoMatch

\* url_patterns, in the order of the list
NumPatterns == 4

\* re.findall(pattern, response, re.IGNORECASE): the non-overlapping matches
\* of url_patterns[k - 1] from left to right
RECURSIVE FindFrom(_, _, _)
FindFrom(k, b, i) ==
    IF i > Len(b) THEN <<>>
    ELSE LET m == CASE k = 1 -> MatchBareDomain(b, i)
                    [] k = 2 -> MatchMetaTag(b, i)
                    [] k = 3 -> MatchHref(b, i)
                    [] OTHER -> MatchWebsite(b, i)
         IN  IF m.ok THEN <<m.cap>> \o FindFrom(k, b, m.end)
             ELSE FindFrom(k, b, i + 1)

FindAll(k, b) == FindFrom(k, b, 1)

\* a strip of one trailing "/" only
RStrip_One(s) ==
    IF Len(s) > 0 /\ s[Len(s)] = "/" THEN SubSeq(s, 1, Len(s) - 1) ELSE s

\* str.rstrip('/')
RECURSIVE RStrip(_)
RStrip(s) ==
    IF Len(s) > 0 /\ s[Len(s)] = "/" THEN RStrip(SubSeq(s, 1, Len(s) - 1)) ELSE s

\* "no URL": the loop over url_patterns ended without a return
NoUrl == <<>>

\* the for loop of get_ygg_url over url_patterns, from pattern k on
RECURSIVE ExtractFrom(_, _)
ExtractFrom(k, b) ==
    IF k > NumPatterns THEN NoUrl
    ELSE LET matches == FindAll(k, b)
             u == RStrip(matches[1])
         IN  IF matches # <<>> /\ ContainsProduct(u) THEN u
             ELSE ExtractFrom(k + 1, b)

\* the extraction trying the last pattern of the list first
Extract_LastRuleFirst(b) ==
    LET ks == {k \in 1..NumPatterns : FindAll(k, b) # <<>>}
        last == CHOOSE k \in ks : \A j \in ks : j <= k
    IN  IF ks = {} THEN NoUrl ELSE RStrip(FindAll(last, b)[1])

\* the URL get_ygg_url extracts from the text b, NoUrl when it extracts none
Extract(b) == ExtractFrom(1, b)

----------------------------------------------------------------------------
(* Texts the model draws from *)

\* the default of get_ygg_url's fallback_url: "https://www.yggtorrent.org"
DefaultFallback == <<"https", ":", "/", "/", "www", ".", "yggtorrent", ".", "org">>

\* another fallback a caller may pass: "https://example.com"
OtherFallback == <<"https", ":", "/", "/", "example", ".", "com">>

\* "https://www.yggtorrent.fi", a URL found in a cache file at the start
OldUrl == <<"https", ":", "/", "/", "www", ".", "yggtorrent", ".", "fi">>

\* URLs that profile pages carry
UrlBare == DefaultFallback \o <<"/">>
UrlForum == <<"https", ":", "/", "/", "forum", ".", "YggTorrent", ".", "org", "/", "a", "/", "/">>

Tag(u) == <<"<", "meta", " ", "property", "=", DQ, "og", ":", "url", DQ, " ",
            "content", "=", DQ>> \o u \o <<DQ, ">">>
Anchor(u) == <<"<", "a", " ", "href", "=", SQ>> \o u \o <<SQ, ">">>
Json(u) == <<DQ, "website", DQ, ":", " ", DQ>> \o u \o <<DQ>>

\* pieces of a profile page
Fragments ==
    { <<"hello", " ">>,
      <<"No", " ", "YggTorrent", " ", "link", " ">>,
      UrlBare \o <<" ">>,
      <<"http", ":", "/", "/", "yggtorrent", ".", "fi", " ">>,
      <<"HTTPS", ":", "/", "/", "yggtorrent", ".", "o", " ">>,
      Tag(UrlForum),
      Anchor(UrlBare), Anchor(UrlForum), Anchor((OtherFallback \o <<"/">>)),
      Json(UrlForum) }

\* the bodies retrieve_url may return for the profile page
Bodies == {<<>>} \cup Fragments \cup {f \o g : f, g \in Fragments}

\* get_ygg_url's extraction, computed once per body
ExtractOf == [b \in Bodies |-> Extract(b)]

\* more URLs and pieces, for the extraction on its own
MoreFragments ==
    LET UrlOther == <<"http", ":", "/", "/", "link", ".", "yggtorrent", ".", "fi", "/">>
    IN  { DefaultFallback,
          <<"HTTPS", ":", "/", "/", "YggTorrent", ".", "fi", "/", " ">>,
          Anchor(UrlOther),
          Json(UrlOther) }

----------------------------------------------------------------------------
(* Values returned by the calls *)

None == [tag |-> "none", url |-> <<>>, exc |-> ""]
Str(u) == [tag |-> "str", url |-> u, exc |-> ""]
Raise(e) == [tag |-> "raise", url |-> <<>>, exc |-> e]

----------------------------------------------------------------------------
(* URLCache *)

\* what the cache file can hold
File(k) == [kind |-> k, tsKind |-> "missing", ts |-> 0, urlKind |-> "missing", url |-> <<>>]
Absent == File("absent")
Record(tk, t, uk, u) == [kind |-> "record", tsKind |-> tk, ts |-> t, urlKind |-> uk, url |-> u]

\* cache_data.get('url', '')
UrlField(f) ==
    CASE f.urlKind = "str" -> Str(f.url)
      [] f.urlKind = "missing" -> Str(<<>>)
      [] f.urlKind = "truthy" -> [tag |-> "obj", url |-> <<>>, exc |-> ""]
      [] OTHER -> None

\* bool(v)
Truthy(v) == v.tag = "obj" \/ (v.tag = "str" /\ v.url # <<>>)

\* self._cache_duration
cache_duration == URL_CACHE_DURATION_HOURS

\* get_cached_url with the expiry test written <= instead of <
get_cached_url_Inclusive(f, t) ==
    CASE f.kind = "absent" -> None
      [] f.kind \in {"unreadable", "notjson"} -> None
      [] f.kind = "nonobject" -> Raise("AttributeError")
      [] OTHER ->
           CASE f.tsKind = "nonstr" -> Raise("TypeError")
             [] f.tsKind \in {"missing", "badstr"} -> None
             [] f.tsKind = "aware" -> Raise("TypeError")
             [] OTHER ->
                  IF t - f.ts <= cache_duration /\ Truthy(UrlField(f))
                  THEN UrlField(f)
                  ELSE None

\* get_cached_url without json.JSONDecodeError in its except clause
get_cached_url_Uncaught(f, t) ==
    CASE f.kind = "absent" -> None
      [] f.kind = "unreadable" -> None
      [] f.kind = "notjson" -> Raise("JSONDecodeError")
      [] f.kind = "nonobject" -> Raise("AttributeError")
      [] OTHER ->
           CASE f.tsKind = "nonstr" -> Raise("TypeError")
             [] f.tsKind \in {"missing", "badstr"} -> None
             [] f.tsKind = "aware" -> Raise("TypeError")
             [] OTHER ->
                  IF t - f.ts < cache_duration /\ Truthy(UrlField(f))
                  THEN UrlField(f)
                  ELSE None

\* URLCache.get_cached_url, on the file f at time t
get_cached_url(f, t) ==
    CASE f.kind = "absent" -> None
      [] f.kind \in {"unreadable", "notjson"} -> None
      [] f.kind = "nonobject" -> Raise("AttributeError")
      [] OTHER ->
           CASE f.tsKind = "nonstr" -> Raise("TypeError")
             [] f.tsKind \in {"missing", "badstr"} -> None
             [] f.tsKind = "aware" -> Raise("TypeError")
             [] OTHER ->
                  IF t - f.ts < cache_duration /\ Truthy(UrlField(f))
                  THEN UrlField(f)
                  ELSE None

\* what open(self._cache_file, 'w') and json.dump can do
Writes == {"ok", "openfail", "partial"}

\* save_url writing an offset-carrying timestamp (datetime.now(timezone.utc))
save_url_Aware(f, u, t, w) ==
    CASE w = "ok" -> Record("aware", 0, "str", u)
      [] w = "openfail" -> f
      [] OTHER -> File("notjson")

\* save_url that keeps the record the file holds, when it holds a URL
save_url_KeepsFirst(f, u, t, w) ==
    CASE w = "ok" -> IF f.kind = "record" /\ Truthy(UrlField(f)) THEN f
                     ELSE Record("naive", t, "str", u)
      [] w = "openfail" -> f
      [] OTHER -> File("notjson")

\* URLCache.save_url: the cache file after save_url(u) at time t
save_url(f, u, t, w) ==
    CASE w = "ok" -> Record("naive", t, "str", u)
      [] w = "openfail" -> f
      [] OTHER -> File("notjson")

\* the exception the write of save_url ends with, "" when it ends with none:
\* open() or json.dump() fail with an OSError (no such directory, no
\* permission, disk full)
WriteError(w) == IF w = "ok" THEN "" ELSE "OSError"

\* save_url without its except clause
save_url_returns_Propagates(w) ==
    IF WriteError(w) = "" THEN None ELSE Raise(WriteError(w))

\* URLCache.save_url: what the caller gets back when the write does w
save_url_returns(w) ==
    IF WriteError(w) = "" \/ WriteError(w) \in {"OSError"}
    THEN None
    ELSE Raise(WriteError(w))

----------------------------------------------------------------------------
(* YggURLFetcher.get_ygg_url *)

\* get_ygg_url reads a body only through its extraction and 'yggtorrent' in it:
\* one body of Bodies for each value of the two
BodyClass(b) == <<ExtractOf[b], ContainsProduct(b)>>

\* what retrieve_url(self._profile_url) does: it raises, or returns a body
Responses ==
    {[ok |-> FALSE, body |-> <<>>]}
       \cup {[ok |-> TRUE, body |-> CHOOSE b \in Bodies : BodyClass(b) = c] :
                c \in {BodyClass(b) : b \in Bodies}}

Outcome(res, f, fetch, product, extracted, write) ==
    [result |-> res, file |-> f, fetch |-> fetch, product |-> product,
     extracted |-> extracted, write |-> write]

\* the outcome of get_ygg_url on a cache miss
OnMiss(f, t, fallback_url, resp, w) ==
    LET ygg == ExtractOf[resp.body]
    IN  IF ~resp.ok
        THEN Outcome(Str(fallback_url), f, "raise", FALSE, NoUrl, "unused")
        ELSE IF ygg # NoUrl
        THEN Outcome(Str(ygg), save_url(f, ygg, t, w), "ok",
                     ContainsProduct(resp.body), ygg, w)
        ELSE Outcome(Str(fallback_url), f, "ok",
                     ContainsProduct(resp.body), NoUrl, "unused")

\* the outcome of get_ygg_url when get_cached_url answers c and the fetch is not made
NoFetch(c, f) == Outcome(c, f, "unused", FALSE, NoUrl, "unused")

\* get_ygg_url that never asks the cache
get_ygg_url_AlwaysFetch(f, t, fallback_url, resp, w) ==
    OnMiss(f, t, fallback_url, resp, w)

\* get_ygg_url that, when the fetch raises, falls back to the URL of the cache
\* file whatever its age
get_ygg_url_StaleOnError(f, t, fallback_url, resp, w) ==
    LET c == get_cached_url(f, t)
    IN  IF c.tag = "raise" \/ Truthy(c) THEN NoFetch(c, f)
        ELSE IF ~resp.ok /\ f.kind = "record" /\ Truthy(UrlField(f))
        THEN Outcome(UrlField(f), f, "raise", FALSE, NoUrl, "unused")
        ELSE OnMiss(f, t, fallback_url, resp, w)

\* get_ygg_url that caches the fallback when no pattern matches
get_ygg_url_SavesFallback(f, t, fallback_url, resp, w) ==
    LET c == get_cached_url(f, t)
    IN  IF c.tag = "raise" \/ Truthy(c) THEN NoFetch(c, f)
        ELSE IF resp.ok /\ ExtractOf[resp.body] = NoUrl
        THEN Outcome(Str(fallback_url), save_url(f, fallback_url, t, "ok"), "ok",
                     ContainsProduct(resp.body), NoUrl, "unused")
        ELSE OnMiss(f, t, fallback_url, resp, w)

\* get_ygg_url that renews the timestamp of the record on a cache hit
get_ygg_url_RefreshOnHit(f, t, fallback_url, resp, w) ==
    LET c == get_cached_url(f, t)
    IN  IF c.tag = "raise" THEN NoFetch(c, f)
        ELSE IF Truthy(c) THEN NoFetch(c, [f EXCEPT !.ts = t])
        ELSE OnMiss(f, t, fallback_url, resp, w)

\* get_ygg_url that returns the fallback when the cache write fails
get_ygg_url_FallbackOnWriteError(f, t, fallback_url, resp, w) ==
    LET c == get_cached_url(f, t)
        o == OnMiss(f, t, fallback_url, resp, w)
    IN  IF c.tag = "raise" \/ Truthy(c) THEN NoFetch(c, f)
        ELSE IF o.write \in {"openfail", "partial"}
        THEN [o EXCEPT !.result = Str(fallback_url)]
        ELSE o

\* get_ygg_url(fallback_url) on the file f at time t, when retrieve_url answers resp
\* and the cache write does w
get_ygg_url(f, t, fallback_url, resp, w) ==
    LET cached_url == get_cached_url(f, t)
        ygg == ExtractOf[resp.body]
    IN  IF cached_url.tag = "raise"
        THEN Outcome(cached_url, f, "unused", FALSE, NoUrl, "unused")
        ELSE IF Truthy(cached_url)
        THEN Outcome(cached_url, f, "unused", FALSE, NoUrl, "unused")
        ELSE IF ~resp.ok
        THEN Outcome(Str(fallback_url), f, "raise", FALSE, NoUrl, "unused")
        ELSE IF ygg # NoUrl
        THEN Outcome(Str(ygg), save_url(f, ygg, t, w), "ok",
                     ContainsProduct(resp.body), ygg, w)
        ELSE Outcome(Str(fallback_url), f, "ok",
                     ContainsProduct(resp.body), NoUrl, "unused")

----------------------------------------------------------------------------
(* yggapi: the fields __init__ sets and search reads *)

\* _should_continue_pagination without the test of the page limit
should_continue_pagination_NoLimit(results_count, p) ==
    results_count >= per_page

\* _should_continue_pagination without the test of the page size
should_continue_pagination_AnySize(results_count, p) ==
    max_page <= 0 \/ p < max_page

\* _should_continue_pagination with the page limit tested <= in place of <
should_continue_pagination_Inclusive(results_count, p) ==
    LET has_more_results == results_count >= per_page
        within_page_limit == max_page <= 0 \/ p <= max_page
    IN  has_more_results /\ within_page_limit

\* yggapi._should_continue_pagination(results_count), on page p
should_continue_pagination(results_count, p) ==
    LET has_more_results == results_count >= per_page
        within_page_limit == max_page <= 0 \/ p < max_page
    IN  has_more_results /\ within_page_limit

\* len(results) of the pages the API may answer with
PageSizes == {n \in {0, 1, per_page - 1, per_page, per_page + 1} : n >= 0}

\* what an attempt of _fetch_page can fail with: retrieve_url raises, or
\* json.loads raises on the body
FetchFailures == {"raise", "badjson"}

----------------------------------------------------------------------------
(* yggapi: the fields of a raw record and their coercion *)

\* an integer and a string handed back by a coercion
Num(n) == [tag |-> "int", n |-> n, s |-> <<>>, exc |-> ""]
Text(s) == [tag |-> "str", n |-> 0, s |-> s, exc |-> ""]
Throw(e) == [tag |-> "raise", n |-> 0, s |-> <<>>, exc |-> e]

\* JSON values of 'uploaded_at': a string in one of the two date forms, naming
\* the instant at, another string, the empty string, or a value of another type
DateString(form, at) == [type |-> "str", form |-> form, at |-> at]
NotAString(type) == [type |-> type, form |-> "", at |-> 0]

\* datetime.strptime(v, fmt) followed by int(dt.timestamp())
strptime(v, fmt) ==
    IF v.type # "str" THEN Throw("TypeError")
    ELSE IF v.form = fmt THEN Num(v.at)
    ELSE Throw("ValueError")

\* the exceptions both try blocks of _parse_date catch
ParseDateCatches == {"ValueError", "AttributeError"}

\* yggapi._parse_date(date_string) at time t
parse_date(date_string, t) ==
    LET first == strptime(date_string, "offset")
        second == strptime(date_string, "naive")
    IN  IF first.tag # "raise" THEN first
        ELSE IF first.exc \notin ParseDateCatches THEN first
        ELSE IF second.tag # "raise" THEN second
        ELSE IF second.exc \notin ParseDateCatches THEN second
        ELSE Num(t)

\* a JSON value of 'size': its type, and the integer or the string it is
JValue(type, n, s) == [type |-> type, n |-> n, s |-> s]

Digits == <<"0", "1", "2", "3", "4", "5", "6", "7", "8", "9">>

\* str(n) of an integer
RECURSIVE DecimalString(_)
DecimalString(n) ==
    IF n < 0 THEN <<"-">> \o DecimalString(0 - n)
    ELSE IF n < 10 THEN <<Digits[n + 1]>>
    ELSE DecimalString(n \div 10) \o <<Digits[(n % 10) + 1]>>

\* str(size) when isinstance(size, int): bool is a subclass of int
StrOfInt(v) ==
    IF v.type = "bool"
    THEN IF v.n = 1 THEN <<"T", "r", "u", "e">> ELSE <<"F", "a", "l", "s", "e">>
    ELSE DecimalString(v.n)

\* yggapi._parse_size(size)
parse_size(size) ==
    IF size.type \in {"int", "bool"} THEN Text(StrOfInt(size))
    ELSE IF size.type = "str" THEN Text(size.s)
    ELSE Text(<<"-", "1">>)

\* int(v) on the JSON value of 'seeders' or 'leechers', by the kind of the value:
\* the exception it raises, "" when it raises none
IntError(kind) ==
    CASE kind \in {"int", "absent", "numstr", "float", "bool"} -> ""
      [] kind = "badstr" -> "ValueError"
      [] kind = "infinity" -> "OverflowError"
      [] OTHER -> "TypeError"

\* an element of a page: whether it is a JSON object, and its fields; 'id',
\* 'title' and 'link' are strings, unless a record is made without them
Torrent(dict, uploaded_at, size, seeders, leechers) ==
    [dict |-> dict, uploaded_at |-> uploaded_at, size |-> size,
     seeders |-> seeders, leechers |-> leechers,
     id |-> JValue("str", 0, <<"4", "2">>),
     title |-> JValue("str", 0, <<"M", "o", "v", "i", "e">>),
     link |-> JValue("str", 0, <<"l", "i", "n", "k">>)]

\* int(v) on the JSON value of 'seeders' or 'leechers', by the kind of the
\* value, when it raises nothing: the integer 7, the string "7", the float
\* 1.5, true, and the default 0 of an absent key
IntValue(kind) ==
    CASE kind \in {"int", "numstr"} -> 7
      [] kind \in {"float", "bool"} -> 1
      [] OTHER -> 0

\* torrent.get(key) without a default
Get_NoDefault(v, default) == v

\* torrent.get(key, default) on the value v of the key
Get(v, default) == IF v.type = "absent" THEN default ELSE v

\* the exception the try block of _print_result ends with, "" when
\* prettyPrinter is reached
PrintError(torrent, t) ==
    LET pub_date == parse_date(Get(torrent.uploaded_at, DateString("empty", 0)), t)
    IN  IF ~torrent.dict THEN "AttributeError"
        ELSE IF pub_date.tag = "raise" THEN pub_date.exc
        ELSE IF IntError(torrent.seeders) # "" THEN IntError(torrent.seeders)
        ELSE IntError(torrent.leechers)

\* yggapi._print_result(torrent): "printed", "skipped", or the exception that
\* leaves it
print_result(torrent, t) ==
    LET e == PrintError(torrent, t)
    IN  IF e = "" THEN "printed"
        ELSE IF e \in {"KeyError", "ValueError", "TypeError"} THEN "skipped"
        ELSE e

\* "for torrent_data in results: self._print_result(torrent_data)" visiting
\* the positions of the page in the given order: the positions printed, and
\* the exception that ends the loop ("" for none)
PrintInOrder(page, order, t) ==
    LET r == [i \in 1..Len(page) |-> print_result(page[i], t)]
        bad == {k \in 1..Len(order) : r[order[k]] \notin {"printed", "skipped"}}
        stop == IF bad = {} THEN Len(order) + 1
                ELSE CHOOSE k \in bad : \A j \in bad : k <= j
    IN  [printed |-> SelectSeq(SubSeq(order, 1, stop - 1),
                               LAMBDA i : r[i] = "printed"),
         exc |-> IF bad = {} THEN "" ELSE r[order[stop]]]

\* print_loop that prints a page from its last record to its first
print_loop_Backwards(page, t) ==
    PrintInOrder(page, [k \in 1..Len(page) |-> Len(page) + 1 - k], t)

\* the print loop of search over a page
print_loop(page, t) ==
    PrintInOrder(page, [k \in 1..Len(page) |-> k], t)

\* records of the pages
GoodTorrent == Torrent(TRUE, DateString("offset", 0), JValue("int", 5, <<>>), "int", "int")
BadSeeders == Torrent(TRUE, DateString("naive", 0), JValue("str", 0, <<"5">>), "badstr", "int")
NonDict == Torrent(FALSE, NotAString("absent"), JValue("absent", 0, <<>>), "absent", "absent")
Torrents ==
    {GoodTorrent, BadSeeders, NonDict,
     Torrent(TRUE, NotAString("null"), JValue("null", 0, <<>>), "numstr", "absent")}

\* the shape of a page of n records: good records, but for the record r at
\* position at
Shape(n, at, r) == [n |-> n, at |-> at, r |-> r]
NoPage == Shape(0, 0, GoodTorrent)

\* the JSON list of a shape
PageOf(shape) ==
    [i \in 1..shape.n |-> IF i = shape.at THEN shape.r ELSE GoodTorrent]

\* the shapes of the pages of n records the endpoint answers with
ShapesOfSize(n) ==
    IF n = 0 THEN {NoPage}
    ELSE {Shape(n, 1, r) : r \in {GoodTorrent, BadSeeders, NonDict}}
            \cup {Shape(n, n, NonDict)}

\* events of a search, as the history records them
FetchEvent(p, res, got) == [ev |-> "fetch", page |-> p, idx |-> 0, res |-> res, got |-> got]
StartEvent(p) == [ev |-> "start", page |-> p, idx |-> 0, res |-> "", got |-> NoPage]
SleepEvent(p) == [ev |-> "sleep", page |-> p, idx |-> 0, res |-> "", got |-> NoPage]
EmitEvent(p, i) == [ev |-> "emit", page |-> p, idx |-> i, res |-> "", got |-> NoPage]

\* the emissions of page p, for the positions printed
Emits(p, printed) == [k \in 1..Len(printed) |-> EmitEvent(p, printed[k])]

----------------------------------------------------------------------------
(* yggapi: categories and the URL of a page. Strings are sequences of
   characters here *)

\* YggAPIConfig.CATEGORY_MAPPING: the categories of qBittorrent, as strings of characters
CATEGORY_MAPPING ==
    (<<"a", "l", "l">> :> <<>>) @@
    (<<"m", "o", "v", "i", "e", "s">> :> <<"2", "1", "8", "3">>) @@
    (<<"t", "v">> :> <<"2", "1", "8", "4">>) @@
    (<<"m", "u", "s", "i", "c">> :> <<"2", "1", "4", "8">>) @@
    (<<"g", "a", "m", "e", "s">> :> <<"2", "1", "4", "2">>) @@
    (<<"a", "n", "i", "m", "e">> :> <<"2", "1", "7", "9">>) @@
    (<<"s", "o", "f", "t", "w", "a", "r", "e">> :> <<"2", "1", "4", "4">>) @@
    (<<"p", "i", "c", "t", "u", "r", "e", "s">> :> <<"2", "1", "9", "1">>) @@
    (<<"b", "o", "o", "k", "s">> :> <<"2", "1", "4", "0">>)

\* YggAPIConfig.EXTENDED_CATEGORY_MAPPING
EXTENDED_CATEGORY_MAPPING ==
    (<<"a", "n", "i", "m", "a", "t", "i", "o", "n">> :> <<"2", "1", "7", "8">>) @@
    (<<"a", "n", "i", "m", "a", "t", "i", "o", "n", "_", "s", "e", "r", "i", "e", "s">> :> <<"2", "1", "7", "9">>) @@
    (<<"c", "o", "n", "c", "e", "r", "t">> :> <<"2", "1", "8", "0">>) @@
    (<<"d", "o", "c", "u", "m", "e", "n", "t", "a", "r", "y">> :> <<"2", "1", "8", "1">>) @@
    (<<"t", "v", "_", "s", "h", "o", "w">> :> <<"2", "1", "8", "2">>) @@
    (<<"m", "o", "v", "i", "e">> :> <<"2", "1", "8", "3">>) @@
    (<<"s", "e", "r", "i", "e", "s">> :> <<"2", "1", "8", "4">>) @@
    (<<"s", "h", "o", "w">> :> <<"2", "1", "8", "5">>) @@
    (<<"s", "p", "o", "r", "t">> :> <<"2", "1", "8", "6">>) @@
    (<<"v", "i", "d", "e", "o", "c", "l", "i", "p">> :> <<"2", "1", "8", "7">>) @@
    (<<"a", "u", "d", "i", "o", "b", "o", "o", "k">> :> <<"2", "1", "5", "1">>) @@
    (<<"c", "o", "m", "i", "c", "s">> :> <<"2", "1", "5", "3">>) @@
    (<<"b", "o", "o", "k", "s">> :> <<"2", "1", "5", "4">>) @@
    (<<"m", "a", "n", "g", "a">> :> <<"2", "1", "5", "5">>) @@
    (<<"p", "r", "e", "s", "s">> :> <<"2", "1", "5", "6">>) @@
    (<<"k", "a", "r", "a", "o", "k", "e">> :> <<"2", "1", "4", "7">>) @@
    (<<"s", "a", "m", "p", "l", "e", "s">> :> <<"2", "1", "4", "9">>) @@
    (<<"p", "o", "d", "c", "a", "s", "t">> :> <<"2", "1", "5", "0">>) @@
    (<<"g", "a", "m", "e", "s", "_", "l", "i", "n", "u", "x">> :> <<"2", "1", "5", "9">>) @@
    (<<"g", "a", "m", "e", "s", "_", "m", "a", "c">> :> <<"2", "1", "6", "0">>) @@
    (<<"g", "a", "m", "e", "s", "_", "m", "i", "c", "r", "o", "s", "o", "f", "t">> :> <<"2", "1", "6", "2">>) @@
    (<<"g", "a", "m", "e", "s", "_", "n", "i", "n", "t", "e", "n", "d", "o">> :> <<"2", "1", "6", "3">>) @@
    (<<"g", "a", "m", "e", "s", "_", "s", "o", "n", "y">> :> <<"2", "1", "6", "4">>) @@
    (<<"g", "a", "m", "e", "s", "_", "w", "i", "n", "d", "o", "w", "s">> :> <<"2", "1", "6", "1">>) @@
    (<<"t", "r", "a", "i", "n", "i", "n", "g">> :> <<"2", "1", "7", "6">>) @@
    (<<"s", "o", "f", "t", "w", "a", "r", "e", "_", "l", "i", "n", "u", "x">> :> <<"2", "1", "7", "1">>) @@
    (<<"s", "o", "f", "t", "w", "a", "r", "e", "_", "m", "a", "c">> :> <<"2", "1", "7", "2">>) @@
    (<<"s", "o", "f", "t", "w", "a", "r", "e", "_", "w", "i", "n", "d", "o", "w", "s">> :> <<"2", "1", "7", "3">>) @@
    (<<"n", "u", "l", "l", "e", "d">> :> <<"2", "3", "0", "0">>) @@
    (<<"w", "o", "r", "d", "p", "r", "e", "s", "s">> :> <<"2", "3", "0", "1">>) @@
    (<<"p", "h", "p", "_", "s", "c", "r", "i", "p", "t", "s">> :> <<"2", "3", "0", "2">>) @@
    (<<"3", "d", "_", "p", "r", "i", "n", "t", "i", "n", "g">> :> <<"2", "2", "0", "0">>) @@
    (<<"3", "d", "_", "o", "b", "j", "e", "c", "t", "s">> :> <<"2", "2", "0", "1">>) @@
    (<<"3", "d", "_", "c", "h", "a", "r", "a", "c", "t", "e", "r", "s">> :> <<"2", "2", "0", "2">>) @@
    (<<"g", "p", "s">> :> <<"2", "1", "4", "3">>) @@
    (<<"g", "p", "s", "_", "a", "p", "p", "s">> :> <<"2", "1", "6", "8">>) @@
    (<<"g", "p", "s", "_", "m", "a", "p", "s">> :> <<"2", "1", "6", "9">>) @@
    (<<"e", "m", "u", "l", "a", "t", "i", "o", "n">> :> <<"2", "1", "4", "1">>) @@
    (<<"e", "m", "u", "l", "a", "t", "o", "r">> :> <<"2", "1", "5", "7">>) @@
    (<<"r", "o", "m", "s">> :> <<"2", "1", "5", "8">>)

\* the keys of YggAPIConfig.YGG_CATEGORY_NAMES
YGG_CATEGORY_NAMES ==
    {<<"2", "1", "4", "5">>,
     <<"2", "1", "7", "8">>,
     <<"2", "1", "7", "9">>,
     <<"2", "1", "8", "0">>,
     <<"2", "1", "8", "1">>,
     <<"2", "1", "8", "2">>,
     <<"2", "1", "8", "3">>,
     <<"2", "1", "8", "4">>,
     <<"2", "1", "8", "5">>,
     <<"2", "1", "8", "6">>,
     <<"2", "1", "8", "7">>,
     <<"2", "1", "4", "0">>,
     <<"2", "1", "5", "1">>,
     <<"2", "1", "5", "2">>,
     <<"2", "1", "5", "3">>,
     <<"2", "1", "5", "4">>,
     <<"2", "1", "5", "5">>,
     <<"2", "1", "5", "6">>,
     <<"2", "1", "3", "9">>,
     <<"2", "1", "4", "7">>,
     <<"2", "1", "4", "8">>,
     <<"2", "1", "4", "9">>,
     <<"2", "1", "5", "0">>,
     <<"2", "1", "8", "8">>,
     <<"2", "4", "0", "1">>,
     <<"2", "1", "8", "9">>,
     <<"2", "1", "9", "0">>,
     <<"2", "1", "9", "1">>,
     <<"2", "4", "0", "2">>,
     <<"2", "1", "4", "2">>,
     <<"2", "1", "6", "7">>,
     <<"2", "1", "5", "9">>,
     <<"2", "1", "6", "0">>,
     <<"2", "1", "6", "2">>,
     <<"2", "1", "6", "3">>,
     <<"2", "1", "6", "5">>,
     <<"2", "1", "6", "4">>,
     <<"2", "1", "6", "6">>,
     <<"2", "1", "6", "1">>,
     <<"2", "1", "4", "4">>,
     <<"2", "1", "7", "7">>,
     <<"2", "1", "7", "6">>,
     <<"2", "1", "7", "1">>,
     <<"2", "1", "7", "2">>,
     <<"2", "1", "7", "4">>,
     <<"2", "1", "7", "5">>,
     <<"2", "1", "7", "3">>,
     <<"2", "3", "0", "0">>,
     <<"2", "3", "0", "4">>,
     <<"2", "3", "0", "3">>,
     <<"2", "3", "0", "2">>,
     <<"2", "3", "0", "1">>,
     <<"2", "2", "0", "0">>,
     <<"2", "2", "0", "1">>,
     <<"2", "2", "0", "2">>,
     <<"2", "1", "4", "3">>,
     <<"2", "1", "6", "8">>,
     <<"2", "1", "6", "9">>,
     <<"2", "1", "7", "0">>,
     <<"2", "1", "4", "1">>,
     <<"2", "1", "5", "7">>,
     <<"2", "1", "5", "8">>}

\* yggapi.supported_categories
supported_categories == CATEGORY_MAPPING

\* YggAPIConfig.API_BASE_URL, the value of yggapi.url, and
\* YggAPIConfig.DEFAULT_ORDER_BY
API_BASE_URL == <<"h", "t", "t", "p", "s", ":", "/", "/", "y", "g", "g", "a", "p", "i", ".", "e", "u">>
DEFAULT_ORDER_BY == <<"s", "e", "e", "d", "e", "r", "s">>

\* the characters str.isdigit takes for digits: the ASCII digits, and digits
\* of other scripts and superscripts, of which U+00B2 SUPERSCRIPT TWO is one
DigitChars == {"0", "1", "2", "3", "4", "5", "6", "7", "8", "9", "U+00B2"}

\* category.isdigit()
isdigit(s) == s # <<>> /\ \A i \in 1..Len(s) : s[i] \in DigitChars

\* _resolve_category_id taking every string of digits for a category id
resolve_category_id_AnyDigits(category) ==
    IF category \in DOMAIN supported_categories
    THEN supported_categories[category]
    ELSE IF category \in DOMAIN EXTENDED_CATEGORY_MAPPING
    THEN EXTENDED_CATEGORY_MAPPING[category]
    ELSE IF isdigit(category) THEN category
    ELSE <<>>

\* _resolve_category_id asking the extended table before the standard one
resolve_category_id_ExtendedFirst(category) ==
    IF category \in DOMAIN EXTENDED_CATEGORY_MAPPING
    THEN EXTENDED_CATEGORY_MAPPING[category]
    ELSE IF category \in DOMAIN supported_categories
    THEN supported_categories[category]
    ELSE IF isdigit(category) /\ category \in YGG_CATEGORY_NAMES THEN category
    ELSE <<>>

\* yggapi._resolve_category_id(category)
resolve_category_id(category) ==
    IF category \in DOMAIN supported_categories
    THEN supported_categories[category]
    ELSE IF category \in DOMAIN EXTENDED_CATEGORY_MAPPING
    THEN EXTENDED_CATEGORY_MAPPING[category]
    ELSE IF isdigit(category) /\ category \in YGG_CATEGORY_NAMES THEN category
    ELSE <<>>

\* urllib.parse.quote_plus of one character: the space, and the characters
\* that have a meaning in a query string
QuoteChar(c) ==
    CASE c = " " -> <<"+">>
      [] c = "&" -> <<"%", "2", "6">>
      [] c = "=" -> <<"%", "3", "D">>
      [] c = "?" -> <<"%", "3", "F">>
      [] OTHER -> <<c>>

\* urllib.parse.quote_plus(s)
RECURSIVE quote_plus(_)
quote_plus(s) ==
    IF s = <<>> THEN <<>> ELSE QuoteChar(Head(s)) \o quote_plus(Tail(s))

\* urllib.parse.urlencode(params), params a sequence of <<key, value>>
RECURSIVE urlencode(_)
urlencode(params) ==
    IF params = <<>> THEN <<>>
    ELSE quote_plus(params[1][1]) \o <<"=">> \o quote_plus(params[1][2])
         \o (IF Len(params) = 1 THEN <<>> ELSE <<"&">> \o urlencode(Tail(params)))

\* the names 'category_id' and 'all'
CATEGORY_ID == <<"c", "a", "t", "e", "g", "o", "r", "y", "_", "i", "d">>
ALL == <<"a", "l", "l">>

\* the params of _build_search_url before the category is looked at
search_params(query, page, perpage) ==
    <<<<<<"q">>, query>>,
      <<<<"p", "a", "g", "e">>, DecimalString(page)>>,
      <<<<"p", "e", "r", "_", "p", "a", "g", "e">>, DecimalString(perpage)>>,
      <<<<"o", "r", "d", "e", "r", "_", "b", "y">>, DEFAULT_ORDER_BY>>>>

\* f"{self.url}/torrents?{urlencode(params)}"
search_url(params) ==
    API_BASE_URL \o <<"/", "t", "o", "r", "r", "e", "n", "t", "s", "?">> \o urlencode(params)

\* _build_search_url without the test "if category_id"
build_search_url_NoIdTest(query, category, page, perpage) ==
    LET params == search_params(query, page, perpage)
        category_id == resolve_category_id(category)
    IN  IF category # ALL
        THEN search_url(Append(params, <<CATEGORY_ID, category_id>>))
        ELSE search_url(params)

\* yggapi._build_search_url(query, category) with _current_page = page and
\* _per_page = perpage
build_search_url(query, category, page, perpage) ==
    LET params == search_params(query, page, perpage)
        category_id == resolve_category_id(category)
    IN  IF category # ALL /\ category_id # <<>>
        THEN search_url(Append(params, <<CATEGORY_ID, category_id>>))
        ELSE search_url(params)

\* the categories a host may pass to search: the keys of the tables, and
\* strings that are in no table
Categories ==
    DOMAIN CATEGORY_MAPPING \cup DOMAIN EXTENDED_CATEGORY_MAPPING
       \cup YGG_CATEGORY_NAMES
       \cup {<<>>, <<"9", "9", "9", "9">>, <<"0", "0", "7">>, <<"b", "o", "g", "u", "s">>,
             <<"M", "o", "v", "i", "e", "s">>, <<" ", "2", "1", "8", "3">>, <<"U+00B2">>}

\* values of 'uploaded_at' and of 'size' in a record
UploadedAts ==
    {DateString(f, 7) : f \in {"offset", "naive", "other", "empty"}}
       \cup {NotAString(ty) : ty \in {"null", "int", "float", "bool", "list", "dict"}}
Sizes ==
    {JValue("int", n, <<>>) : n \in {0 - 3, 0, 5, 1234}}
       \cup {JValue("str", 0, s) : s \in {<<>>, <<"1", "2">>, <<"-", "1">>, <<"1", " ", "G", "B">>}}
       \cup {JValue("bool", IF b THEN 1 ELSE 0, <<>>) : b \in BOOLEAN}
       \cup {JValue(ty, 0, <<>>) : ty \in {"null", "float", "list", "dict"}}

----------------------------------------------------------------------------
(* yggapi: the record handed to the sink, and the instance it is made by *)

\* the fields of a plugin instance the helpers read
Self(site, passkey, page, perpage) ==
    [url |-> API_BASE_URL, ygg_url |-> site, passkey |-> passkey,
     current_page |-> page, per_page |-> perpage]

\* yggapi._build_download_link(torrent_id); an f-string puts a string as it
\* is, a number as str gives it, and null as None
build_download_link(self, torrent_id) ==
    LET id == CASE torrent_id.type = "str" -> torrent_id.s
                [] torrent_id.type \in {"int", "bool"} -> StrOfInt(torrent_id)
                [] OTHER -> <<"N", "o", "n", "e">>
    IN  self.url \o <<"/", "t", "o", "r", "r", "e", "n", "t", "/">> \o id
           \o <<"/", "d", "o", "w", "n", "l", "o", "a", "d", "?">>
           \o <<"p", "a", "s", "s", "k", "e", "y", "=">> \o self.passkey

\* the dictionary _print_result hands to prettyPrinter, at time t
result(self, torrent, t) ==
    [link |-> build_download_link(self, Get(torrent.id, JValue("str", 0, <<>>))),
     name |-> Get(torrent.title, JValue("str", 0, <<"U", "n", "k", "n", "o", "w", "n">>)),
     size |-> parse_size(Get(torrent.size, JValue("str", 0, <<"-", "1">>))).s,
     seeds |-> IntValue(torrent.seeders),
     leech |-> IntValue(torrent.leechers),
     engine_url |-> self.url,
     desc_link |-> Get(torrent.link, JValue("str", 0, self.ygg_url)),
     pub_date |-> parse_date(Get(torrent.uploaded_at, DateString("empty", 0)), t).n]

\* _fetch_page sending the passkey along with the request
fetch_page_url_WithPasskey(self, query, category) ==
    build_search_url(query, category, self.current_page, self.per_page)
       \o <<"&", "p", "a", "s", "s", "k", "e", "y", "=">> \o self.passkey

\* search_url of _fetch_page: the URL handed to retrieve_url
fetch_page_url(self, query, category) ==
    build_search_url(query, category, self.current_page, self.per_page)

\* a JSON object with none of the fields _print_result reads
EmptyDict ==
    [dict |-> TRUE, uploaded_at |-> NotAString("absent"),
     size |-> JValue("absent", 0, <<>>), seeders |-> "absent",
     leechers |-> "absent", id |-> JValue("absent", 0, <<>>),
     title |-> JValue("absent", 0, <<>>), link |-> JValue("absent", 0, <<>>)]

\* values of YggAPIConfig.PASSKEY
Passkeys == {<<"S", "E", "C", "R", "E", "T">>, <<"K", "E", "Y", "2">>}

----------------------------------------------------------------------------
(* The state machine *)

NoInstance == [tag |-> "noinstance", url |-> <<>>, exc |-> ""]

NoCall == [op |-> "none", fallback |-> <<>>, fetch |-> "unused", product |-> FALSE,
           extracted |-> NoUrl, write |-> "unused", result |-> None]

CallOf(op, fb, o) ==
    [op |-> op, fallback |-> fb, fetch |-> o.fetch, product |-> o.product,
     extracted |-> o.extracted, write |-> o.write, result |-> o.result]

NoSave == [url |-> NoUrl, at |-> 0, prev |-> NoUrl]

\* the processes that share the cache file
Procs == {1, 2}

\* no cache file, and no process in a call of URLCache
Unshared ==
    [exists |-> FALSE, content |-> <<>>, given |-> {},
     proc |-> [p \in Procs |-> [pc |-> "idle", op |-> "none", doc |-> <<>>,
                                buf |-> <<>>, result |-> None]]]

\* no plugin has been constructed: get_ygg_url has not run for one, the cache
\* has not been read and the profile page has not been asked for
Undiscovered == [runs |-> 0, reads |-> 0, fetches |-> 0]

\* the history of a construction whose get_ygg_url call had the outcome o: one
\* run, one get_cached_url call, and one retrieve_url call unless the cache
\* answered
DiscoveryOf(o) ==
    [runs |-> 1, reads |-> 1, fetches |-> IF o.fetch = "unused" THEN 0 ELSE 1]

\* no coercion or lookup is being applied
NoArg == [type |-> "none"]

\* the history after a get_ygg_url call with outcome o
SavedAfter(o) ==
    IF o.write = "ok" THEN [url |-> o.extracted, at |-> now, prev |-> saved.url]
    ELSE saved

\* timestamps of the records a cache file may hold at the start
InitTimes == {k * TickHours : k \in (0 - TicksPerTTL - 1)..1}

InitFiles ==
    {File(k) : k \in {"absent", "unreadable", "notjson", "nonobject"}}
    \cup {Record(tk, 0, uk, <<>>) :
             tk \in {"missing", "badstr", "nonstr", "aware"},
             uk \in {"missing", "falsy", "truthy", "str"}}
    \cup {Record("naive", t, uk, <<>>) :
             t \in InitTimes, uk \in {"missing", "falsy", "truthy", "str"}}
    \cup {Record(tk, 0, "str", OldUrl) : tk \in {"missing", "badstr", "nonstr", "aware"}}
    \cup {Record("naive", t, "str", OldUrl) : t \in InitTimes}

\* the fields of the plugin and the locals of search
fields == <<per_page, max_page>>
loop == <<pc, current_page, attempt, results, calls, emitted, trace>>

\* no plugin constructed, no call made
Init ==
    /\ cacheFile \in InitFiles
    /\ now = 0
    /\ call = NoCall
    /\ ygg_url = NoInstance
    /\ pc = "idle"
    /\ current_page = 1
    /\ attempt = 0
    /\ saved = NoSave
    /\ per_page = DEFAULT_PER_PAGE
    /\ max_page = 0
    /\ results = 0
    /\ calls = 0
    /\ emitted = 0
    /\ response = <<>>
    /\ trace = <<>>
    /\ arg = NoArg
    /\ discovery = Undiscovered
    /\ shared = Unshared

\* the wall clock advances; only the cache reads it, so it moves between calls
Tick ==
    /\ pc = "idle"
    /\ now + TickHours <= MaxTime
    /\ now' = now + TickHours
    /\ call' = NoCall
    /\ UNCHANGED <<cacheFile, ygg_url, saved, fields, loop, response, arg, discovery, shared>>

\* a caller runs URLCache.get_cached_url()
CallGetCachedUrl ==
    /\ pc = "idle"
    /\ call' = [NoCall EXCEPT !.op = "get_cached_url",
                              !.result = get_cached_url(cacheFile, now)]
    /\ UNCHANGED <<cacheFile, now, ygg_url, saved, fields, loop, response, arg,
                   discovery, shared>>

\* a caller runs YggURLFetcher.get_ygg_url(fallback_url) on a fetcher of its own,
\* no plugin being constructed
CallGetYggUrl ==
    /\ pc = "idle"
    /\ ygg_url = NoInstance
    /\ \E fb \in {DefaultFallback, OtherFallback}, resp \in Responses, w \in Writes :
          LET o == get_ygg_url(cacheFile, now, fb, resp, w)
          IN  /\ cacheFile' = o.file
              /\ call' = CallOf("get_ygg_url", fb, o)
              /\ saved' = SavedAfter(o)
    /\ UNCHANGED <<now, ygg_url, fields, loop, response, arg, discovery, shared>>

\* yggapi.__init__: the host constructs the plugin
Construct ==
    /\ pc = "idle"
    /\ \E resp \in Responses, w \in Writes :
          LET o == get_ygg_url(cacheFile, now, DefaultFallback, resp, w)
          IN  /\ cacheFile' = o.file
              /\ call' = CallOf("init", DefaultFallback, o)
              /\ saved' = SavedAfter(o)
              /\ ygg_url' = IF o.result.tag = "raise" THEN NoInstance ELSE o.result
              /\ discovery' = DiscoveryOf(o)
    /\ current_page' = 1
    /\ max_page' = 0
    /\ per_page' = DEFAULT_PER_PAGE
    /\ UNCHANGED <<now, pc, attempt, results, calls, emitted, response, trace, arg,
                   shared>>

SearchCall == [NoCall EXCEPT !.op = "search"]

\* SearchStart without the assignment self._current_page = 1
SearchStart_KeepsPage ==
    /\ pc = "idle"
    /\ ygg_url # NoInstance
    /\ pc' = "fetching"
    /\ attempt' = 0
    /\ results' = 0
    /\ calls' = 0
    /\ emitted' = 0
    /\ trace' = <<StartEvent(current_page)>>
    /\ call' = SearchCall
    /\ UNCHANGED <<cacheFile, now, ygg_url, saved, fields, response, arg, discovery, shared,
                   current_page>>

\* SearchStart of a search that runs the discovery again
SearchStart_Rediscovers ==
    /\ pc = "idle"
    /\ ygg_url # NoInstance
    /\ \E resp \in Responses, w \in Writes :
          LET o == get_ygg_url(cacheFile, now, DefaultFallback, resp, w)
          IN  /\ o.result.tag # "raise"
              /\ cacheFile' = o.file
              /\ saved' = SavedAfter(o)
              /\ ygg_url' = o.result
              /\ discovery' = [runs |-> discovery.runs + 1,
                               reads |-> discovery.reads + 1,
                               fetches |-> discovery.fetches + DiscoveryOf(o).fetches]
    /\ pc' = "fetching"
    /\ current_page' = 1
    /\ attempt' = 0
    /\ results' = 0
    /\ calls' = 0
    /\ emitted' = 0
    /\ trace' = <<StartEvent(current_page)>>
    /\ call' = SearchCall
    /\ UNCHANGED <<now, fields, response, arg, shared>>

\* yggapi.search is entered: self._current_page = 1, first _fetch_page begins
SearchStart ==
    /\ pc = "idle"
    /\ ygg_url # NoInstance
    /\ pc' = "fetching"
    /\ current_page' = 1
    /\ attempt' = 0
    /\ results' = 0
    /\ calls' = 0
    /\ emitted' = 0
    /\ trace' = <<StartEvent(current_page)>>
    /\ call' = SearchCall
    /\ UNCHANGED <<cacheFile, now, ygg_url, saved, fields, response, arg,
                   discovery, shared>>

\* the retrieve_url calls of the running _fetch_page, the one being made included
CallsAfter == IF attempt = 0 THEN 1 ELSE calls + 1

\* FetchRetry going on after the last attempt of range(MAX_RETRIES)
FetchRetry_OneMore ==
    /\ pc = "fetching"
    /\ attempt < MAX_RETRIES
    /\ attempt' = attempt + 1
    /\ calls' = CallsAfter
    /\ \E e \in FetchFailures :
          /\ call' = [SearchCall EXCEPT !.fetch = e]
          /\ trace' = trace \o <<FetchEvent(current_page, "failed", NoPage),
                                 SleepEvent(current_page)>>
    /\ UNCHANGED <<cacheFile, now, ygg_url, saved, fields, response, arg, discovery, shared,
                   pc, current_page, results, emitted>>

\* FetchRetry going on to the next attempt without time.sleep
FetchRetry_NoSleep ==
    /\ pc = "fetching"
    /\ attempt < MAX_RETRIES - 1
    /\ attempt' = attempt + 1
    /\ calls' = CallsAfter
    /\ \E e \in FetchFailures :
          /\ call' = [SearchCall EXCEPT !.fetch = e]
          /\ trace' = Append(trace, FetchEvent(current_page, "failed", NoPage))
    /\ UNCHANGED <<cacheFile, now, ygg_url, saved, fields, response, arg, discovery, shared,
                   pc, current_page, results, emitted>>

\* _fetch_page: retrieve_url raises or json.loads fails, and attempts remain:
\* time.sleep, next attempt
FetchRetry ==
    /\ pc = "fetching"
    /\ attempt < MAX_RETRIES - 1
    /\ attempt' = attempt + 1
    /\ calls' = CallsAfter
    /\ \E e \in FetchFailures :
          /\ call' = [SearchCall EXCEPT !.fetch = e]
          /\ trace' = trace \o <<FetchEvent(current_page, "failed", NoPage),
                                 SleepEvent(current_page)>>
    /\ UNCHANGED <<cacheFile, now, ygg_url, saved, fields, response, arg, discovery, shared,
                   pc, current_page, results, emitted>>

\* FetchGivesUp letting the exception of the last attempt out to the host
FetchGivesUp_Raises ==
    /\ pc = "fetching"
    /\ ~(attempt < MAX_RETRIES - 1)
    /\ calls' = CallsAfter
    /\ results' = 0
    /\ pc' = "raised"
    /\ \E e \in FetchFailures :
          /\ call' = [SearchCall EXCEPT !.fetch = e, !.result = Raise("Exception")]
          /\ trace' = Append(trace, FetchEvent(current_page, "failed", NoPage))
    /\ UNCHANGED <<cacheFile, now, ygg_url, saved, fields, response, arg, discovery, shared,
                   current_page, attempt, emitted>>

\* _fetch_page: the last attempt fails too, it returns []; search breaks
FetchGivesUp ==
    /\ pc = "fetching"
    /\ ~(attempt < MAX_RETRIES - 1)
    /\ calls' = CallsAfter
    /\ results' = 0
    /\ pc' = "done"
    /\ \E e \in FetchFailures :
          /\ call' = [SearchCall EXCEPT !.fetch = e]
          /\ trace' = Append(trace, FetchEvent(current_page, "failed", NoPage))
    /\ UNCHANGED <<cacheFile, now, ygg_url, saved, fields, response, arg, discovery, shared,
                   current_page, attempt, emitted>>

\* FetchNonList taking a body that is no list for a failed attempt
FetchNonList_Retries ==
    /\ pc = "fetching"
    /\ calls' = CallsAfter
    /\ call' = [SearchCall EXCEPT !.fetch = "nonlist"]
    /\ IF attempt < MAX_RETRIES - 1
       THEN /\ attempt' = attempt + 1
            /\ trace' = trace \o <<FetchEvent(current_page, "nonlist", NoPage),
                                   SleepEvent(current_page)>>
            /\ UNCHANGED <<pc, results>>
       ELSE /\ results' = 0
            /\ pc' = "done"
            /\ trace' = Append(trace, FetchEvent(current_page, "nonlist", NoPage))
            /\ UNCHANGED attempt
    /\ UNCHANGED <<cacheFile, now, ygg_url, saved, fields, response, arg, discovery, shared,
                   current_page, emitted>>

\* _fetch_page: the body parses to something that is no list, it returns [];
\* search breaks
FetchNonList ==
    /\ pc = "fetching"
    /\ calls' = CallsAfter
    /\ results' = 0
    /\ pc' = "done"
    /\ call' = [SearchCall EXCEPT !.fetch = "nonlist"]
    /\ trace' = Append(trace, FetchEvent(current_page, "nonlist", NoPage))
    /\ UNCHANGED <<cacheFile, now, ygg_url, saved, fields, response, arg, discovery, shared,
                   current_page, attempt, emitted>>

\* what search does after the print loop of a page of n records that ended
\* with the exception exc ("" for none): it raises, goes on to the next page,
\* or is done
AfterPage(n, exc) ==
    IF exc # ""
    THEN /\ pc' = "raised"
         /\ UNCHANGED <<current_page, attempt>>
    ELSE IF should_continue_pagination(n, current_page)
    THEN /\ current_page < MaxPages
         /\ current_page' = current_page + 1
         /\ attempt' = 0
         /\ pc' = "fetching"
    ELSE /\ pc' = "done"
         /\ UNCHANGED <<current_page, attempt>>

\* the call record of a page whose print loop ended with exc
ListCall(exc) ==
    [SearchCall EXCEPT !.fetch = "list",
                       !.result = IF exc = "" THEN None ELSE Raise(exc)]

\* FetchList without the test "if not results: break"
FetchList_NoEmptyCheck ==
    /\ pc = "fetching"
    /\ calls' = CallsAfter
    /\ \E n \in PageSizes : \E shape \in ShapesOfSize(n) :
          LET page == PageOf(shape)
              out == print_loop(page, now)
          IN  /\ results' = Len(page)
              /\ emitted' = emitted + Len(out.printed)
              /\ trace' = Append(trace, FetchEvent(current_page, "list", shape))
                            \o Emits(current_page, out.printed)
              /\ call' = ListCall(out.exc)
              /\ AfterPage(Len(page), out.exc)
    /\ UNCHANGED <<cacheFile, now, ygg_url, saved, fields, response, arg,
                   discovery, shared>>

\* _fetch_page returns a list of records; search prints them, but for the ones
\* _print_result skips, and decides on the next page
FetchList ==
    /\ pc = "fetching"
    /\ calls' = CallsAfter
    /\ \E n \in PageSizes : \E shape \in ShapesOfSize(n) :
          LET page == PageOf(shape)
              out == print_loop(page, now)
          IN  /\ results' = Len(page)
              /\ IF page = <<>>
                 THEN /\ pc' = "done"
                      /\ trace' = Append(trace, FetchEvent(current_page, "list", shape))
                      /\ call' = ListCall("")
                      /\ UNCHANGED <<current_page, attempt, emitted>>
                 ELSE /\ emitted' = emitted + Len(out.printed)
                      /\ trace' = Append(trace, FetchEvent(current_page, "list", shape))
                                    \o Emits(current_page, out.printed)
                      /\ call' = ListCall(out.exc)
                      /\ AfterPage(Len(page), out.exc)
    /\ UNCHANGED <<cacheFile, now, ygg_url, saved, fields, response, arg,
                   discovery, shared>>

\* search returns to the host, or its exception reaches the host; its locals
\* are gone
SearchReturn ==
    /\ pc \in {"done", "raised"}
    /\ pc' = "idle"
    /\ attempt' = 0
    /\ results' = 0
    /\ calls' = 0
    /\ emitted' = 0
    /\ trace' = <<>>
    /\ call' = SearchCall
    /\ UNCHANGED <<cacheFile, now, ygg_url, saved, fields, response, arg, discovery, shared,
                   current_page>>

\* the URL of the plugin over time: search reads self.url and writes neither
\* the cache file nor the fields, its steps are the ones of SpecSearch below
Next ==
    \/ Tick
    \/ CallGetCachedUrl
    \/ CallGetYggUrl
    \/ Construct

Spec == Init /\ [][Next]_vars

----------------------------------------------------------------------------
(* URLCache on its own: a caller saves and reads URLs *)

\* the URLs a caller saves
SaveUrls == {<<>>, OldUrl, DefaultFallback}

\* the history after save_url(u) whose write does w: a write that fails after
\* open() has truncated the file leaves no record
SavedBy(u, w) ==
    CASE w = "ok" -> [url |-> u, at |-> now, prev |-> saved.url]
      [] w = "openfail" -> saved
      [] OTHER -> NoSave

\* a caller runs URLCache.save_url(u)
CallSaveUrl ==
    /\ pc = "idle"
    /\ \E u \in SaveUrls, w \in Writes :
          /\ cacheFile' = save_url(cacheFile, u, now, w)
          /\ call' = [NoCall EXCEPT !.op = "save_url", !.write = w,
                                    !.result = save_url_returns(w)]
          /\ saved' = SavedBy(u, w)
    /\ UNCHANGED <<now, ygg_url, fields, loop, response, arg, discovery, shared>>

NextCache ==
    \/ Tick
    \/ CallGetCachedUrl
    \/ CallSaveUrl

SpecCache == Init /\ [][NextCache]_vars

----------------------------------------------------------------------------
(* The extraction of get_ygg_url on its own: applied to a profile page *)

InitExtract ==
    /\ response \in Bodies \cup {f \o g : f, g \in Fragments \cup MoreFragments}
    /\ cacheFile = Absent
    /\ now = 0
    /\ call = NoCall
    /\ ygg_url = NoInstance
    /\ pc = "idle"
    /\ current_page = 1
    /\ attempt = 0
    /\ saved = NoSave
    /\ per_page = DEFAULT_PER_PAGE
    /\ max_page = 0
    /\ results = 0
    /\ calls = 0
    /\ emitted = 0
    /\ trace = <<>>
    /\ arg = NoArg
    /\ discovery = Undiscovered
    /\ shared = Unshared

\* the for loop of get_ygg_url runs on the text retrieve_url returned
ExtractUrl ==
    /\ call' = [NoCall EXCEPT !.op = "extract", !.fetch = "ok",
                              !.product = ContainsProduct(response),
                              !.extracted = Extract(response)]
    /\ UNCHANGED <<cacheFile, now, ygg_url, saved, fields, loop, response, arg,
                   discovery, shared>>

SpecExtract == InitExtract /\ [][ExtractUrl]_vars

----------------------------------------------------------------------------
(* yggapi.search on its own: a plugin whose page size and page limit a caller
   has set *)

InitSearch ==
    /\ per_page \in (0 - 1)..SmallPerPage
    /\ max_page \in (0 - 1)..MaxPages
    /\ ygg_url = Str(DefaultFallback)
    /\ cacheFile = Absent
    /\ now = 0
    /\ call = NoCall
    /\ pc = "idle"
    /\ current_page = 1
    /\ attempt = 0
    /\ saved = NoSave
    /\ results = 0
    /\ calls = 0
    /\ emitted = 0
    /\ response = <<>>
    /\ trace = <<>>
    /\ arg = NoArg
    /\ discovery = Undiscovered
    /\ shared = Unshared

NextSearch ==
    \/ SearchStart
    \/ FetchRetry
    \/ FetchGivesUp
    \/ FetchNonList
    \/ FetchList
    \/ SearchReturn

SpecSearch == InitSearch /\ [][NextSearch]_vars

----------------------------------------------------------------------------
(* yggapi.search without a bound on its pages: the page counter stays at
   MaxPages for every page from MaxPages on, and what the history holds of the
   pages before is forgotten *)

\* _fetch_page returns a list for a page from MaxPages on, and search goes on
\* to the next page
FetchListBeyond ==
    /\ pc = "fetching"
    /\ current_page = MaxPages
    /\ calls' = CallsAfter
    /\ \E n \in PageSizes : \E shape \in ShapesOfSize(n) :
          LET page == PageOf(shape)
              out == print_loop(page, now)
          IN  /\ page # <<>>
              /\ out.exc = ""
              /\ should_continue_pagination(Len(page), current_page)
              /\ results' = Len(page)
              /\ call' = ListCall("")
    /\ attempt' = 0
    /\ emitted' = 0
    /\ trace' = <<>>
    /\ UNCHANGED <<cacheFile, now, ygg_url, saved, fields, response, arg, discovery, shared,
                   pc, current_page>>

NextLive ==
    \/ SearchStart
    \/ FetchRetry
    \/ FetchGivesUp
    \/ FetchNonList
    \/ FetchList
    \/ FetchListBeyond
    \/ SearchReturn

\* search is sequential code: retrieve_url returns or raises, time.sleep
\* returns, and the step after it is taken
SpecLive == InitSearch /\ [][NextLive]_vars /\ WF_vars(NextLive)

----------------------------------------------------------------------------
(* yggapi.search end to end: the plugin as __init__ leaves it, and an endpoint
   every call of which is answered with a list *)

InitEndToEnd ==
    /\ per_page = DEFAULT_PER_PAGE
    /\ max_page = 0
    /\ ygg_url = Str(DefaultFallback)
    /\ cacheFile = Absent
    /\ now = 0
    /\ call = NoCall
    /\ pc = "idle"
    /\ current_page = 1
    /\ attempt = 0
    /\ saved = NoSave
    /\ results = 0
    /\ calls = 0
    /\ emitted = 0
    /\ response = <<>>
    /\ trace = <<>>
    /\ arg = NoArg
    /\ discovery = Undiscovered
    /\ shared = Unshared

NextEndToEnd ==
    \/ SearchStart
    \/ FetchList
    \/ SearchReturn

SpecEndToEnd == InitEndToEnd /\ [][NextEndToEnd]_vars

----------------------------------------------------------------------------
(* The plugin of one process: the host constructs it, then searches with it *)

\* the process starts with no cache file, with one that is no JSON, or with
\* the record an earlier process has just written
InitInstance ==
    /\ Init
    /\ cacheFile \in {Absent, File("notjson"), Record("naive", 0, "str", OldUrl)}

\* the host constructs the plugin of the process (a construction that raised
\* has left no instance, and the host may construct again); time passes in the
\* life of the instance; the host searches
NextInstance ==
    \/ ygg_url = NoInstance /\ Construct
    \/ ygg_url # NoInstance /\ Tick
    \/ SearchStart
    \/ FetchList
    \/ SearchReturn

SpecInstance == InitInstance /\ [][NextInstance]_vars

----------------------------------------------------------------------------
(* URLCache of two processes on one cache file: the steps of save_url and of
   get_cached_url of one process interleave with those of the other *)

\* json.dump(cache_data, f): the text written for the URL u at time t, the
\* timestamp being datetime.now().isoformat()
dump(u, t) ==
    <<"{", "url", ":", DQ>> \o u \o <<DQ, ",", "timestamp", ":", ToString(t), "}">>

\* json.load(f) and the two cache_data.get of get_cached_url on the text read:
\* the record it holds, if it is one JSON object of the two keys and nothing
\* else
loads(text) ==
    LET n == Len(text)
        closing == {i \in 5..n : text[i] = DQ}
        fromisoformat == {t \in 0..MaxTime : ToString(t) = text[n - 1]}
    IN  IF /\ n >= 10
           /\ SubSeq(text, 1, 4) = <<"{", "url", ":", DQ>>
           /\ closing # {}
           /\ \A i \in closing : i >= n - 5
           /\ SubSeq(text, n - 5, n - 2) = <<DQ, ",", "timestamp", ":">>
           /\ fromisoformat # {}
           /\ text[n] = "}"
        THEN Record("naive", CHOOSE t \in fromisoformat : TRUE,
                    "str", SubSeq(text, 5, n - 6))
        ELSE File("notjson")

\* the shared file and the processes after a step that leaves sh; cacheFile is
\* what a get_cached_url that sees all of the file finds
Shares(sh) ==
    /\ shared' = sh
    /\ cacheFile' = IF sh.exists THEN loads(sh.content) ELSE Absent
    /\ UNCHANGED <<now, call, ygg_url, saved, fields, loop, response, arg, discovery>>

\* save_url(u) of process p, as far as open(self._cache_file, 'w'): the file is
\* created or truncated
SaveOpens(p) ==
    /\ shared.proc[p].pc = "idle"
    /\ \E u \in SaveUrls :
          Shares([exists |-> TRUE, content |-> <<>>,
                  given |-> shared.given \cup {u},
                  proc |-> [shared.proc EXCEPT ![p] =
                              [pc |-> "writing", op |-> "save_url",
                               doc |-> dump(u, now), buf |-> <<>>, result |-> None]]])

\* save_url of process p, from json.dump to the end of the with block: the
\* text, which json.dump has put into the buffer of f, is written at offset 0
\* when f is closed, over what the file holds by then
SaveWrites(p) ==
    /\ shared.proc[p].pc = "writing"
    /\ LET doc == shared.proc[p].doc
       IN  Shares([shared EXCEPT
                     !.content = doc \o SubSeq(@, Len(doc) + 1, Len(@)),
                     !.proc[p].pc = "idle"])

\* get_cached_url of process p, as far as open(self._cache_file, 'r'); it
\* returns None when there is no file
GetOpens(p) ==
    /\ shared.proc[p].pc = "idle"
    /\ Shares([shared EXCEPT
                 !.proc[p] = [pc |-> IF shared.exists THEN "reading" ELSE "idle",
                              op |-> "get_cached_url", doc |-> <<>>, buf |-> <<>>,
                              result |-> None]])

\* json.load of process p reads f to its end: a read returns what the file
\* holds from the offset of f on, and the read that returns nothing ends it;
\* get_cached_url then goes on with what has been read
GetReads(p) ==
    /\ shared.proc[p].pc = "reading"
    /\ LET buf == shared.proc[p].buf
           more == SubSeq(shared.content, Len(buf) + 1, Len(shared.content))
       IN  IF more # <<>>
           THEN Shares([shared EXCEPT !.proc[p].buf = buf \o more])
           ELSE Shares([shared EXCEPT
                          !.proc[p].pc = "idle",
                          !.proc[p].result = get_cached_url(loads(buf), now)])

NextShared ==
    \E p \in Procs :
       \/ SaveOpens(p)
       \/ SaveWrites(p)
       \/ GetOpens(p)
       \/ GetReads(p)

SpecShared == InitEndToEnd /\ [][NextShared]_vars

----------------------------------------------------------------------------
(* The helpers of yggapi on their own: each is applied to a value *)

\* records whose fields all convert, but for the value of 'uploaded_at'
DatedTorrents ==
    {Torrent(TRUE, d, JValue("int", 5, <<>>), "int", "int") :
        d \in UploadedAts \cup {NotAString("absent")}}

\* the values the helpers are applied to; the queries are "test query" and
\* "a&category_id=1"
HelperArgs ==
    {[type |-> "category", category |-> c, query |-> q, passkey |-> k] :
        c \in Categories,
        q \in {<<"t", "e", "s", "t", " ", "q", "u", "e", "r", "y">>,
               <<"a", "&", "c", "a", "t", "e", "g", "o", "r", "y", "_", "i", "d", "=", "1">>},
        k \in Passkeys}
       \cup {[type |-> "uploaded_at", value |-> d] : d \in UploadedAts}
       \cup {[type |-> "size", value |-> v] : v \in Sizes}
       \cup {[type |-> "torrent", value |-> t, passkey |-> k] :
                t \in Torrents \cup DatedTorrents \cup {EmptyDict}, k \in Passkeys}

InitHelpers ==
    /\ arg \in HelperArgs
    /\ discovery = Undiscovered
    /\ shared = Unshared
    /\ per_page = DEFAULT_PER_PAGE
    /\ max_page = 0
    /\ current_page \in 1..MaxPages
    /\ ygg_url \in {Str(DefaultFallback), Str(OldUrl)}
    /\ cacheFile = Absent
    /\ now = 0
    /\ call = NoCall
    /\ pc = "idle"
    /\ attempt = 0
    /\ saved = NoSave
    /\ results = 0
    /\ calls = 0
    /\ emitted = 0
    /\ response = <<>>
    /\ trace = <<>>

\* the instance the helpers are called on
ThisPlugin == Self(ygg_url.url, arg.passkey, current_page, per_page)

\* the observation of a helper that has returned r
HelperCall(op, r) == [NoCall EXCEPT !.op = op, !.result = r]

CallResolveCategoryId ==
    /\ arg.type = "category"
    /\ call' = HelperCall("_resolve_category_id",
                          Text(resolve_category_id(arg.category)))
    /\ UNCHANGED <<cacheFile, now, ygg_url, saved, fields, loop, response, arg,
                   discovery, shared>>

CallBuildSearchUrl ==
    /\ arg.type = "category"
    /\ call' = HelperCall("_build_search_url",
                          Text(fetch_page_url(ThisPlugin, arg.query, arg.category)))
    /\ UNCHANGED <<cacheFile, now, ygg_url, saved, fields, loop, response, arg,
                   discovery, shared>>

CallParseDate ==
    /\ arg.type = "uploaded_at"
    /\ call' = HelperCall("_parse_date", parse_date(arg.value, now))
    /\ UNCHANGED <<cacheFile, now, ygg_url, saved, fields, loop, response, arg,
                   discovery, shared>>

CallParseSize ==
    /\ arg.type = "size"
    /\ call' = HelperCall("_parse_size", parse_size(arg.value))
    /\ UNCHANGED <<cacheFile, now, ygg_url, saved, fields, loop, response, arg,
                   discovery, shared>>

\* _print_result: what becomes of the record and, when it is printed, the
\* dictionary prettyPrinter gets
CallPrintResult ==
    /\ arg.type = "torrent"
    /\ LET status == print_result(arg.value, now)
       IN  call' = HelperCall("_print_result",
                     [tag |-> "str", n |-> 0, s |-> status, exc |-> "",
                      out |-> IF status = "printed"
                              THEN result(ThisPlugin, arg.value, now)
                              ELSE None])
    /\ UNCHANGED <<cacheFile, now, ygg_url, saved, fields, loop, response, arg,
                   discovery, shared>>

NextHelpers ==
    \/ CallResolveCategoryId
    \/ CallBuildSearchUrl
    \/ CallParseDate
    \/ CallParseSize
    \/ CallPrintResult

SpecHelpers == InitHelpers /\ [][NextHelpers]_vars

----------------------------------------------------------------------------
(* Properties *)

\* the call that has just returned is get_ygg_url, called directly or by __init__
IsGetYggUrl(c) == c.op \in {"get_ygg_url", "init"}

\* the cache file holds a valid entry at time t: a record that parses, with a
\* non-empty url and a timestamp less than the cache duration old
ValidEntry(f, t) ==
    /\ f.kind = "record"
    /\ f.tsKind = "naive"
    /\ f.urlKind = "str" /\ f.url # <<>>
    /\ t - f.ts < cache_duration

\* the record's timestamp is at least the cache duration old
Expired(f, t) ==
    /\ f.kind = "record"
    /\ f.tsKind = "naive"
    /\ t - f.ts >= cache_duration

\* C1: a get_ygg_url call made while the cache file holds a valid entry returns
\* the URL of that entry and does not call retrieve_url.
C1_CacheHitNoFetch ==
    [][(IsGetYggUrl(call') /\ ValidEntry(cacheFile, now))
         => (call'.result = Str(cacheFile.url) /\ call'.fetch = "unused")]_vars

C1_Witness ==
    /\ IsGetYggUrl(call)
    /\ ValidEntry(cacheFile, now)
    /\ call.result = Str(cacheFile.url)
    /\ call.fetch = "unused"

UrlMissingOrEmpty(f) ==
    f.urlKind = "missing" \/ (f.urlKind = "str" /\ f.url = <<>>)

TimestampMissingOrInvalid(f) == f.tsKind \in {"missing", "badstr", "nonstr"}

\* C3: get_cached_url returns None for every record whose url is missing or
\* empty, or whose timestamp is missing or invalid.
C3_BadRecordReturnsNone ==
    (/\ call.op = "get_cached_url"
     /\ cacheFile.kind = "record"
     /\ UrlMissingOrEmpty(cacheFile) \/ TimestampMissingOrInvalid(cacheFile))
      => call.result = None

\* C4: get_cached_url never raises, whatever the cache file holds.
C4_GetCachedUrlNeverRaises ==
    call.op = "get_cached_url" => call.result.tag # "raise"

\* C5: get_ygg_url never raises and returns a URL string, so that __init__
\* always yields a plugin instance.
C5_GetYggUrlNeverRaises ==
    IsGetYggUrl(call) =>
        /\ call.result.tag = "str"
        /\ call.op = "init" => ygg_url # NoInstance

C7_NoProductNoWrite ==
    [][(IsGetYggUrl(call') /\ call'.fetch = "ok" /\ ~call'.product)
         => (call'.result = Str(call'.fallback) /\ cacheFile' = cacheFile)]_vars

C7_Witness ==
    /\ IsGetYggUrl(call)
    /\ call.fetch = "ok" /\ ~call.product
    /\ call.result = Str(call.fallback)
    /\ cacheFile.kind = "absent"

\* C8: once a get_ygg_url call has fetched the profile, extracted u and written
\* it, the cache file holds u, and every get_ygg_url call made less than the
\* cache duration later returns u without calling retrieve_url.
C8_WriteThrough ==
    [][/\ (IsGetYggUrl(call') /\ call'.extracted # NoUrl /\ call'.write = "ok")
            => cacheFile' = Record("naive", now, "str", call'.extracted)
       /\ (IsGetYggUrl(call') /\ saved # NoSave /\ now - saved.at < cache_duration)
            => (call'.result = Str(saved.url) /\ call'.fetch = "unused")]_vars

\* a later call, at a later time, served from the cache the earlier call wrote
C8_Witness ==
    /\ IsGetYggUrl(call)
    /\ saved # NoSave
    /\ saved.at < now /\ now - saved.at < cache_duration
    /\ call.result = Str(saved.url)
    /\ call.fetch = "unused"

\* a get_ygg_url call that did not extract a URL: a cache hit, a failed fetch,
\* a body without a match (or an exception of get_cached_url)
NoDiscovery(c) == IsGetYggUrl(c) /\ c.extracted = NoUrl

\* C9: get_cached_url, search and every get_ygg_url call that is not a
\* successful discovery leave the cache file as it was; a cache hit does not
\* renew the timestamp, an expired record is kept, the fallback is not stored.
C9_CacheReadOnlyOtherwise ==
    [][(call'.op \in {"get_cached_url", "search"} \/ NoDiscovery(call'))
         => cacheFile' = cacheFile]_vars

\* a cache hit on a record written earlier: its timestamp is still the old one
C9_Witness ==
    /\ IsGetYggUrl(call)
    /\ call.fetch = "unused"
    /\ ValidEntry(cacheFile, now)
    /\ cacheFile.ts < now

WriteFailed(c) == c.write \in {"openfail", "partial"}

\* C10 as stated: when the URL is extracted and the cache write fails,
\* get_ygg_url returns fallback_url.
C10_WriteErrorReturnsFallback ==
    (IsGetYggUrl(call) /\ call.extracted # NoUrl /\ WriteFailed(call))
      => call.result = Str(call.fallback)

\* C10 amended: when the URL is extracted and the cache write fails, get_ygg_url
\* returns the extracted URL; the write error is swallowed.
C10_WriteErrorReturnsExtracted ==
    (IsGetYggUrl(call) /\ call.extracted # NoUrl /\ WriteFailed(call))
      => call.result = Str(call.extracted)

C10_Witness ==
    /\ call.op = "get_ygg_url"
    /\ call.extracted # NoUrl /\ call.write = "openfail"
    /\ call.fallback = OtherFallback
    /\ call.result = Str(call.extracted)
    /\ cacheFile.kind = "absent"

\* the cache file holds a URL, whatever its age
HoldsUrl(f) == f.kind = "record" /\ f.urlKind = "str" /\ f.url # <<>>

\* C16: a get_ygg_url call whose retrieve_url raised returns the URL the cache
\* file holds when it holds one, and the fallback only when it holds none.
C16_FetchErrorReturnsCached ==
    (IsGetYggUrl(call) /\ call.fetch = "raise")
      => call.result = IF HoldsUrl(cacheFile) THEN Str(cacheFile.url)
                       ELSE Str(call.fallback)

----------------------------------------------------------------------------
(* Properties of URLCache on its own (SpecCache) *)

\* C11: save_url is best-effort: when the cache file cannot be written,
\* save_url returns normally (None) and raises nothing.
C11_SaveUrlNeverRaises ==
    (call.op = "save_url" /\ call.write # "ok") => call.result = None

\* open() failed on save_url: the call returned, the file is as it was
C11_Witness ==
    /\ call.op = "save_url"
    /\ call.write = "openfail"
    /\ call.result = None
    /\ cacheFile = Record("naive", 0, "str", OldUrl)
    /\ saved = NoSave

\* C12: after a save_url(u) that wrote, u not empty, get_cached_url returns u
\* as long as less than the cache duration has passed; after save_url(u1) then
\* save_url(u2) it returns u2 and never u1.
C12_RoundTrip ==
    (/\ call.op = "get_cached_url"
     /\ saved.url # <<>>
     /\ now - saved.at < cache_duration)
      => /\ call.result = Str(saved.url)
         /\ saved.prev # saved.url => call.result # Str(saved.prev)

\* two saves of different URLs, then a read at a later time
C12_Witness ==
    /\ call.op = "get_cached_url"
    /\ saved.prev = OldUrl
    /\ saved.url = DefaultFallback
    /\ saved.at < now /\ now - saved.at < cache_duration
    /\ call.result = Str(DefaultFallback)

----------------------------------------------------------------------------
(* Properties of the extraction on its own (SpecExtract) *)

\* the patterns of url_patterns that match somewhere in the text b
MatchingRules(b) == {k \in 1..NumPatterns : FindAll(k, b) # <<>>}

\* the first match of the first pattern, in the order of url_patterns, that
\* matches somewhere in b
FirstMatch(b) ==
    LET first == CHOOSE k \in MatchingRules(b) : \A j \in MatchingRules(b) : k <= j
    IN  FindAll(first, b)[1]

\* u is m without its trailing "/", all of them
AllSlashesStripped(m, u) ==
    /\ Len(u) <= Len(m)
    /\ u = SubSeq(m, 1, Len(u))
    /\ \A i \in (Len(u) + 1)..Len(m) : m[i] = "/"
    /\ u = <<>> \/ u[Len(u)] # "/"

\* u is m without its last character when that is a "/", m otherwise
OneSlashStripped(m, u) ==
    IF m # <<>> /\ m[Len(m)] = "/" THEN u = SubSeq(m, 1, Len(m) - 1) ELSE u = m

\* C13: the rules are applied in the order bare domain, og:url meta tag, href,
\* "website" key, ignoring case: the URL extracted is the first match of the
\* first rule that matches at all (trailing slashes apart), whatever the later
\* rules match; when no rule matches, no URL is extracted.
C13_FirstRuleFirstMatch ==
    call.op = "extract" =>
        IF MatchingRules(response) = {}
        THEN call.extracted = NoUrl
        ELSE /\ call.extracted # NoUrl
             /\ \E n \in 0..2 :
                   FirstMatch(response) = call.extracted \o [i \in 1..n |-> "/"]

\* a link to another URL comes first in the page, the bare domain after it:
\* the bare domain is extracted
C13_Witness ==
    /\ call.op = "extract"
    /\ response = Anchor(UrlForum) \o UrlBare \o <<" ">>
    /\ FindAll(3, response) = <<UrlForum>>
    /\ call.extracted = DefaultFallback

\* C14 as stated: the URL extracted is the match with one trailing "/" removed
\* at most, so that a match ending in "//" keeps one "/".
C14_OneSlashStripped ==
    (call.op = "extract" /\ MatchingRules(response) # {})
      => OneSlashStripped(FirstMatch(response), call.extracted)

\* C14 amended: the URL extracted is the match with all its trailing "/"
\* removed; it never ends in "/".
C14_AllSlashesStripped ==
    (call.op = "extract" /\ MatchingRules(response) # {})
      => AllSlashesStripped(FirstMatch(response), call.extracted)

\* the match ends in "//" and both are gone
C14_Witness ==
    /\ call.op = "extract"
    /\ response = Anchor(UrlForum)
    /\ FirstMatch(response) = UrlForum
    /\ call.extracted = SubSeq(UrlForum, 1, Len(UrlForum) - 2)

\* u is scheme, optional "www.", the product name, a dot and a run of two
\* letters or more, and nothing else
IsBaseDomain(u) ==
    LET h == IF Lower(At(u, 5)) = "www" /\ At(u, 6) = "." THEN 7 ELSE 5
    IN  /\ Lower(At(u, 1)) \in {"http", "https"}
        /\ At(u, 2) = ":" /\ At(u, 3) = "/" /\ At(u, 4) = "/"
        /\ Lower(At(u, h)) = PRODUCT
        /\ At(u, h + 1) = "."
        /\ \A i \in (h + 2)..Len(u) : (u[i] \in Words)
        /\ LetterCount(u, h + 2, Len(u) + 1) >= 2

----------------------------------------------------------------------------
(* Properties of search on its own (SpecSearch) *)

\* this step is a return of _fetch_page: search is in its loop and the step is
\* no retry
PageReturned == pc = "fetching" /\ attempt' # attempt + 1

\* C17: after a page with at least one record, search goes on to the next page
\* if and only if the page holds at least per_page records, the skipped ones
\* counted, and max_page is <= 0 or above the page; otherwise search is done.
C17_PaginationTransition ==
    [][(PageReturned /\ results' > 0)
         => IF results' >= per_page /\ (max_page <= 0 \/ current_page < max_page)
            THEN pc' = "fetching" /\ current_page' = current_page + 1
            ELSE pc' = "done" /\ current_page' = current_page]_vars

\* a full page at page = max_page > 0, reached after a full first page: done
C17_Witness ==
    /\ pc = "done"
    /\ current_page = 2 /\ max_page = 2
    /\ results = per_page /\ results > 0
    /\ emitted < 2 * per_page

\* C18: a page with no record ends search at once: nothing is printed for it
\* and no page is fetched after it, whatever per_page and max_page are.
C18_EmptyPageEnds ==
    [][/\ (PageReturned /\ results' = 0)
            => (pc' = "done" /\ emitted' = emitted /\ current_page' = current_page)
       /\ pc = "done" => (pc' = "idle" /\ call'.fetch = "unused")]_vars

\* per_page <= 0, where _should_continue_pagination(0) would say yes
C18_Witness ==
    /\ pc = "done"
    /\ call.fetch = "list"
    /\ results = 0
    /\ per_page <= 0 /\ max_page = 0
    /\ current_page = 2

\* C19: for one page retrieve_url is called MAX_RETRIES times at most; an
\* attempt that succeeds is the last one; an attempt that fails is followed by
\* another one until MAX_RETRIES calls are made, and then the page has no
\* record.
C19_BoundedRetry ==
    [][/\ calls' <= MAX_RETRIES
       /\ (pc = "fetching" /\ call'.fetch \in {"list", "nonlist"}) => PageReturned
       /\ (pc = "fetching" /\ call'.fetch \in FetchFailures) =>
             IF calls' < MAX_RETRIES
             THEN pc' = "fetching" /\ current_page' = current_page /\ ~PageReturned
             ELSE calls' = MAX_RETRIES /\ results' = 0 /\ pc' = "done"]_vars

\* every attempt has failed
C19_Witness ==
    /\ pc = "done"
    /\ call.fetch \in FetchFailures
    /\ calls = MAX_RETRIES
    /\ results = 0
    /\ emitted = 0

\* C20: a body that parses to something that is no list makes _fetch_page
\* return no record at once: that call is the last one, nothing is printed,
\* search is done.
C20_NonListIsEmptyPage ==
    [][(pc = "fetching" /\ call'.fetch = "nonlist")
         => /\ PageReturned
            /\ results' = 0
            /\ pc' = "done"
            /\ calls' = (IF attempt = 0 THEN 0 ELSE calls) + 1
            /\ emitted' = emitted]_vars

\* the first body of the page is no list: one call
C20_Witness ==
    /\ pc = "done"
    /\ call.fetch = "nonlist"
    /\ calls = 1
    /\ results = 0

----------------------------------------------------------------------------
(* Properties of the history of a search (SpecSearch) *)

\* the positions of the history that hold a fetch answered with a list
ListFetches ==
    {k \in 1..Len(trace) : trace[k].ev = "fetch" /\ trace[k].res = "list"}

\* the first position after k of the history that holds no emission
EmitsEnd(k) ==
    LET later == {j \in (k + 1)..Len(trace) : trace[j].ev # "emit"}
    IN  IF later = {} THEN Len(trace) + 1
        ELSE CHOOSE j \in later : \A i \in later : j <= i

\* the positions of the page handed to the sink after position k of the
\* history, before anything else happens
EmittedAfter(k) == [j \in 1..(EmitsEnd(k) - k - 1) |-> trace[k + j].idx]

\* the positions of a page whose record can be normalized, in order
WellFormed(page) ==
    SelectSeq([i \in 1..Len(page) |-> i], LAMBDA i : PrintError(page[i], now) = "")

\* C21: whatever the elements of a page are, search does not raise, and every
\* record of the page that can be normalized is handed to the sink, the ones
\* after a record that cannot included.
C21_RecordIsolation ==
    /\ pc # "raised"
    /\ \A k \in ListFetches : EmittedAfter(k) = WellFormed(PageOf(trace[k].got))

\* the positions of a page whose record the loop of search reaches and
\* normalizes, in order: no record before them ends search
Normalized(page) ==
    LET r == [i \in 1..Len(page) |-> print_result(page[i], now)]
        raising == {i \in 1..Len(page) : r[i] \notin {"printed", "skipped"}}
    IN  SelectSeq([i \in 1..Len(page) |-> i],
                  LAMBDA i : r[i] = "printed" /\ \A j \in raising : i < j)

\* the positions of the history that hold a call of retrieve_url
Fetches == {k \in 1..Len(trace) : trace[k].ev = "fetch"}

\* C22: the sink is called once for every record that is normalized, in the
\* order of the page, right after the fetch that returned the page; an
\* emission of a page comes before every fetch of a later page.
C22_EmissionOrder ==
    /\ \A k \in ListFetches : EmittedAfter(k) = Normalized(PageOf(trace[k].got))
    /\ \A j \in 1..Len(trace) :
          trace[j].ev = "emit" =>
             /\ j > 1
             /\ trace[j - 1].page = trace[j].page
             /\ \/ trace[j - 1].ev = "fetch" /\ trace[j - 1].res = "list"
                \/ trace[j - 1].ev = "emit" /\ trace[j - 1].idx < trace[j].idx
             /\ \A k \in Fetches : trace[k].page > trace[j].page => j < k

\* two pages printed, the first one with a record that is skipped
C22_Witness ==
    /\ pc = "done"
    /\ current_page = 2
    /\ \E k \in ListFetches :
          /\ trace[k].page = 1
          /\ trace[k].got = Shape(2, 1, BadSeeders)
          /\ EmittedAfter(k) = <<2>>
    /\ trace[Len(trace)] = EmitEvent(2, 1)

\* the calls of retrieve_url and the calls of the sink, in order
FetchSeq == SelectSeq(trace, LAMBDA e : e.ev = "fetch")
EmitSeq == SelectSeq(trace, LAMBDA e : e.ev = "emit")

\* every call of retrieve_url so far was answered with a list of well-formed
\* records: per_page of them but for the last answer, which holds fewer, and
\* one at least
FullPagesThenShort ==
    /\ FetchSeq # <<>>
    /\ \A i \in 1..Len(FetchSeq) :
          /\ FetchSeq[i].res = "list"
          /\ FetchSeq[i].got = Shape(FetchSeq[i].got.n, 1, GoodTorrent)
          /\ i < Len(FetchSeq) => FetchSeq[i].got.n = per_page
          /\ i = Len(FetchSeq) =>
                FetchSeq[i].got.n >= 1 /\ FetchSeq[i].got.n <= per_page - 1

\* C23: when the first k-1 answers are full pages of well-formed records and
\* the k-th answer is a shorter page with a record at least, search is done
\* with k calls of retrieve_url, for the pages 1..k, and the sink has got the
\* (k-1)*per_page records of the full pages and the ones of the last page, in
\* order.
C23_EndToEnd ==
    FullPagesThenShort =>
       LET k == Len(FetchSeq)
           last == FetchSeq[k].got.n
       IN  /\ pc = "done"
           /\ \A i \in 1..k : FetchSeq[i].page = i
           /\ emitted = (k - 1) * per_page + last
           /\ Len(EmitSeq) = emitted
           /\ \A m \in 1..Len(EmitSeq) :
                 EmitSeq[m] = EmitEvent(((m - 1) \div per_page) + 1,
                                        ((m - 1) % per_page) + 1)

\* a page of 100 records, then a page of one: 101 records over two calls
C23_Witness ==
    /\ FullPagesThenShort
    /\ per_page = DEFAULT_PER_PAGE
    /\ Len(FetchSeq) = 2
    /\ FetchSeq[2].got.n = 1
    /\ emitted = DEFAULT_PER_PAGE + 1
    /\ pc = "done"

\* C25: the first call of retrieve_url of a search is for page 1, whatever
\* page the search before ended on; a call after a failed attempt is for the
\* same page, a call after a page is for the next page: the pages requested
\* are 1, 2, ..., k, none left out, none requested after a later one.
C25_PageSequence ==
    /\ FetchSeq # <<>> => FetchSeq[1].page = 1
    /\ \A i \in 1..(Len(FetchSeq) - 1) :
          /\ FetchSeq[i].res \in {"failed", "list"}
          /\ FetchSeq[i + 1].page =
                IF FetchSeq[i].res = "list" THEN FetchSeq[i].page + 1
                ELSE FetchSeq[i].page

\* a search entered on an instance whose search before ended on page 2: page
\* 1 fails once, is fetched again, then page 2 is fetched
C25_Witness ==
    /\ trace # <<>> /\ trace[1] = StartEvent(2)
    /\ Len(FetchSeq) = 3
    /\ FetchSeq[1].page = 1 /\ FetchSeq[1].res = "failed"
    /\ FetchSeq[2].page = 1 /\ FetchSeq[2].res = "list"
    /\ FetchSeq[3].page = 2

\* the number of events ev of page p in the history
Count(ev, p) ==
    Cardinality({j \in 1..Len(trace) : trace[j].ev = ev /\ trace[j].page = p})

\* _fetch_page has returned for page p
PageFinished(p) == p < current_page \/ pc # "fetching"

\* C30: time.sleep is called between two attempts of the same page and nowhere
\* else: it follows a failed attempt, the next event is another attempt for
\* the same page, and a page that is over with n calls of retrieve_url has
\* slept n - 1 times.
C30_SleepBetweenAttempts ==
    /\ \A j \in 1..Len(trace) :
          trace[j].ev = "sleep" =>
             /\ j > 1
             /\ trace[j - 1] = FetchEvent(trace[j].page, "failed", NoPage)
             /\ j < Len(trace) =>
                   trace[j + 1].ev = "fetch" /\ trace[j + 1].page = trace[j].page
             /\ j = Len(trace) => pc = "fetching" /\ current_page = trace[j].page
    /\ \A k \in Fetches :
          LET p == trace[k].page
          IN  Count("sleep", p) =
                 IF PageFinished(p) THEN Count("fetch", p) - 1
                 ELSE Count("fetch", p)

\* every attempt of page 1 has failed: three calls, two sleeps, none after the
\* last one
C30_Witness ==
    /\ pc = "done"
    /\ Len(trace) = 6
    /\ trace[5] = SleepEvent(1)
    /\ trace[6] = FetchEvent(1, "failed", NoPage)
    /\ Count("fetch", 1) = MAX_RETRIES
    /\ Count("sleep", 1) = MAX_RETRIES - 1

----------------------------------------------------------------------------
(* Properties of search without a bound on its pages (SpecLive) *)

\* search has returned to the host, or its exception has reached the host
SearchOver == pc \in {"done", "raised"}

\* C24: every search that is entered is over after finitely many calls of
\* retrieve_url, whatever the endpoint answers and whatever max_page is; the
\* search that ends with an exception is counted as over here.
C24_SearchEnds == (pc = "fetching") ~> SearchOver

\* C24, amended: a search with a page limit, max_page > 0, is over after
\* finitely many calls of retrieve_url, whatever the endpoint answers.
C24_LimitedSearchEnds == (pc = "fetching" /\ max_page > 0) ~> SearchOver

\* a full page on the page the limit names ends the search
C24_Witness ==
    /\ pc = "done"
    /\ max_page = 1
    /\ current_page = 1
    /\ results > 0 /\ results >= per_page
    /\ call.fetch = "list"

----------------------------------------------------------------------------
(* Properties of the helpers (SpecHelpers) *)

\* the helper op has returned
Returned(op) == call.op = op

BOOKS == <<"b", "o", "o", "k", "s">>

\* C26: a category of the standard table resolves to its standard id, also
\* when the extended table names it; another category of the extended table
\* resolves to its extended id; another category that is all digits and a key
\* of the table of names resolves to itself; any other one to "".
C26_ResolutionOrder ==
    Returned("_resolve_category_id") =>
       LET c == arg.category
           id == call.result.s
       IN  /\ c \in DOMAIN CATEGORY_MAPPING => id = CATEGORY_MAPPING[c]
           /\ (c \notin DOMAIN CATEGORY_MAPPING
                  /\ c \in DOMAIN EXTENDED_CATEGORY_MAPPING)
                 => id = EXTENDED_CATEGORY_MAPPING[c]
           /\ (c \notin DOMAIN CATEGORY_MAPPING
                  /\ c \notin DOMAIN EXTENDED_CATEGORY_MAPPING)
                 => id = (IF c \in YGG_CATEGORY_NAMES
                             /\ \A i \in 1..Len(c) : c[i] \in DigitChars
                          THEN c ELSE <<>>)

\* "books" is in both tables, with two ids: the standard one is returned
C26_Witness ==
    /\ Returned("_resolve_category_id")
    /\ arg.category = BOOKS
    /\ BOOKS \in DOMAIN EXTENDED_CATEGORY_MAPPING
    /\ EXTENDED_CATEGORY_MAPPING[BOOKS] # CATEGORY_MAPPING[BOOKS]
    /\ call.result.s = CATEGORY_MAPPING[BOOKS]

\* the positions of the URL u after which a parameter begins
ParamStarts(u) == {i \in 1..Len(u) : u[i] \in {"?", "&"}}

\* the URL u has a parameter key, and its value is v
HasParam(u, key, v) ==
    \E i \in ParamStarts(u) :
       LET from == i + Len(key) + 2
           later == {j \in from..Len(u) : u[j] = "&"}
           to == IF later = {} THEN Len(u)
                 ELSE (CHOOSE j \in later : \A k \in later : j <= k) - 1
       IN  /\ i + Len(key) + 1 <= Len(u)
           /\ SubSeq(u, i + 1, i + Len(key)) = key
           /\ u[i + Len(key) + 1] = "="
           /\ SubSeq(u, from, to) = v

\* the URL u has a parameter key
Carries(u, key) ==
    \E i \in ParamStarts(u) :
       /\ i + Len(key) + 1 <= Len(u)
       /\ SubSeq(u, i + 1, i + Len(key)) = key
       /\ u[i + Len(key) + 1] = "="

\* C27: the URL of a page has a parameter category_id if and only if the
\* category is not "all" and resolves to an id that is not empty, and then
\* the parameter is that id.
C27_CategoryParameter ==
    Returned("_build_search_url") =>
       LET u == call.result.s
           id == resolve_category_id(arg.category)
       IN  /\ Carries(u, CATEGORY_ID) <=> (arg.category # ALL /\ id # <<>>)
           /\ Carries(u, CATEGORY_ID) => HasParam(u, CATEGORY_ID, id)
           /\ HasParam(u, <<"p", "a", "g", "e">>, DecimalString(current_page))

\* a category given by its id, and a query that spells a parameter
C27_Witness ==
    /\ Returned("_build_search_url")
    /\ arg.category = <<"2", "1", "8", "3">>
    /\ arg.query = <<"a", "&", "c", "a", "t", "e", "g", "o", "r", "y", "_", "i", "d", "=", "1">>
    /\ HasParam(call.result.s, CATEGORY_ID, <<"2", "1", "8", "3">>)
    /\ ~HasParam(call.result.s, CATEGORY_ID, <<"1">>)

\* C28: _parse_date returns an integer for every value of 'uploaded_at', the
\* current time when the value is in neither form, and no record whose other
\* fields convert is skipped because of its date.
C28_ParseDateNeverRaises ==
    /\ Returned("_parse_date") =>
          /\ call.result.tag = "int"
          /\ ~(arg.value.type = "str" /\ arg.value.form \in {"offset", "naive"})
                => call.result = Num(now)
    /\ (Returned("_print_result") /\ arg.value \in DatedTorrents) =>
          call.result.s = "printed"

\* C29: _parse_size returns the decimal string of an integer, a string as it
\* is, and "-1" for a value of any other type, the booleans included.
C29_ParseSizeMapping ==
    Returned("_parse_size") =>
       call.result =
          CASE arg.value.type = "int" -> Text(DecimalString(arg.value.n))
            [] arg.value.type = "str" -> Text(arg.value.s)
            [] OTHER -> Text(<<"-", "1">>)

----------------------------------------------------------------------------
(* Properties of search under a page limit (SpecSearch) *)

\* C31: under a page limit, max_page > 0, the page of a search is one of
\* 1..max_page, no call of retrieve_url is for a page above max_page, and a
\* search makes max_page * MAX_RETRIES calls at most.
C31_PageLimit ==
    max_page > 0 =>
       /\ current_page >= 1 /\ current_page <= max_page
       /\ \A k \in Fetches : trace[k].page >= 1 /\ trace[k].page <= max_page
       /\ Len(FetchSeq) <= max_page * MAX_RETRIES

\* the most calls a limit of two pages allows: the first page comes with the
\* last attempt, every attempt of the second page fails
C31_Witness ==
    /\ max_page = 2
    /\ pc = "done"
    /\ current_page = max_page
    /\ Len(FetchSeq) = max_page * MAX_RETRIES
    /\ FetchSeq[Len(FetchSeq)].page = max_page

\* every attempt of page p has failed
GaveUp(p) ==
    Cardinality({k \in Fetches : trace[k].page = p /\ trace[k].res = "failed"})
       = MAX_RETRIES

\* C32: when every attempt of a page p > 1 has failed, search is done as it
\* is after an empty page: no exception and no value reaches the host, what
\* the pages before p gave to the sink is all the sink has got, and no call
\* of retrieve_url is for a page after p.
C32_SilentTruncation ==
    \A p \in 2..MaxPages :
       GaveUp(p) =>
          /\ pc = "done"
          /\ call.result = None
          /\ results = 0
          /\ Count("emit", p) = 0
          /\ emitted = Len(EmitSeq)
          /\ \A m \in 1..Len(EmitSeq) : EmitSeq[m].page < p
          /\ \A k \in Fetches : trace[k].page <= p

\* page 1 is printed, every attempt of page 2 fails
C32_Witness ==
    /\ GaveUp(2)
    /\ pc = "done"
    /\ emitted > 0
    /\ Count("emit", 1) = emitted
    /\ call.fetch \in FetchFailures

----------------------------------------------------------------------------
(* Properties of the record handed to the sink and of the URL requested
   (SpecHelpers) *)

\* C33: a JSON object with none of the expected fields is printed, with the
\* name 'Unknown', 0 seeds, 0 leechers, the size "-1", the discovered URL for
\* desc_link, and the download link of the empty id.
C33_DefaultsOfEmptyRecord ==
    (Returned("_print_result") /\ arg.value = EmptyDict) =>
       /\ call.result.s = "printed"
       /\ call.result.out.name = JValue("str", 0, <<"U", "n", "k", "n", "o", "w", "n">>)
       /\ call.result.out.seeds = 0
       /\ call.result.out.leech = 0
       /\ call.result.out.size = <<"-", "1">>
       /\ call.result.out.desc_link = JValue("str", 0, ygg_url.url)
       /\ call.result.out.link =
             API_BASE_URL \o <<"/", "t", "o", "r", "r", "e", "n", "t", "/", "/">>
                \o <<"d", "o", "w", "n", "l", "o", "a", "d", "?">>
                \o <<"p", "a", "s", "s", "k", "e", "y", "=">> \o arg.passkey

\* the empty record is printed by a plugin whose discovery gave another URL
\* than the default
C33_Witness ==
    /\ Returned("_print_result")
    /\ arg.value = EmptyDict
    /\ ygg_url = Str(OldUrl)
    /\ call.result.s = "printed"
    /\ call.result.out.desc_link.s = OldUrl

\* w is a substring of u
Contains(u, w) ==
    \E i \in 0..(Len(u) - Len(w)) : SubSeq(u, i + 1, i + Len(w)) = w

\* the instances that differ from the one called in the passkey or in the
\* discovered URL only
Variants ==
    {Self(site, k, current_page, per_page) :
        site \in {DefaultFallback, OldUrl}, k \in Passkeys}

\* C34: the URL requested is the same for every passkey and every discovered
\* site URL, the other inputs being equal, and the passkey is not part of it;
\* the passkey is part of the download link of a printed record, and of no
\* other field of it.
C34_RequestsIndependentOfCredential ==
    /\ Returned("_build_search_url") =>
          /\ \A other \in Variants :
                fetch_page_url(other, arg.query, arg.category) = call.result.s
          /\ ~Contains(call.result.s, arg.passkey)
    /\ (Returned("_print_result") /\ call.result.s = "printed") =>
          /\ Contains(call.result.out.link, arg.passkey)
          /\ ~Contains(call.result.out.engine_url, arg.passkey)
          /\ ~Contains(call.result.out.name.s, arg.passkey)
          /\ ~Contains(call.result.out.size, arg.passkey)

\* a URL with a query and a category has been built by an instance holding
\* the second passkey and the second site
C34_Witness ==
    /\ Returned("_build_search_url")
    /\ arg.passkey = <<"K", "E", "Y", "2">>
    /\ ygg_url = Str(OldUrl)
    /\ arg.query # <<>>
    /\ Carries(call.result.s, CATEGORY_ID)
    /\ Cardinality(Variants) = 4

----------------------------------------------------------------------------
(* Properties of the plugin of one process (SpecInstance) *)

\* C35: an instance has run the discovery once, in __init__, with one read of
\* the cache and at most one request for the profile page; once the instance
\* exists no step, of a search or of the clock, runs the discovery, reads or
\* writes the cache, or changes the URL the instance holds.
C35_DiscoveryOnceAtConstruction ==
    [][/\ ygg_url' # NoInstance =>
             /\ discovery'.runs = 1
             /\ discovery'.reads = 1
             /\ discovery'.fetches <= 1
       /\ ygg_url' = NoInstance => pc' = "idle"
       /\ ygg_url # NoInstance =>
             UNCHANGED <<ygg_url, discovery, shared, cacheFile, saved>>]_vars

\* an instance whose construction asked for the profile page and stored the
\* URL has, later, ended a search that printed records
C35_Witness ==
    /\ ygg_url # NoInstance
    /\ discovery.fetches = 1
    /\ saved # NoSave
    /\ saved.at < now
    /\ pc = "done"
    /\ emitted > 0

----------------------------------------------------------------------------
(* Properties of the category tables (SpecHelpers) *)

\* C36: what _resolve_category_id returns is the empty string or a key of
\* YGG_CATEGORY_NAMES, and so is every id of the standard and of the
\* extended table.
C36_ResolvedIdsAreKnown ==
    /\ Returned("_resolve_category_id") =>
          \/ call.result.s = <<>>
          \/ call.result.s \in YGG_CATEGORY_NAMES
    /\ \A c \in DOMAIN CATEGORY_MAPPING :
          CATEGORY_MAPPING[c] = <<>> \/ CATEGORY_MAPPING[c] \in YGG_CATEGORY_NAMES
    /\ \A c \in DOMAIN EXTENDED_CATEGORY_MAPPING :
          EXTENDED_CATEGORY_MAPPING[c] \in YGG_CATEGORY_NAMES

\* a name of the extended table only has been resolved to its id
C36_Witness ==
    /\ Returned("_resolve_category_id")
    /\ arg.category \in DOMAIN EXTENDED_CATEGORY_MAPPING
    /\ arg.category \notin DOMAIN supported_categories
    /\ call.result.s = EXTENDED_CATEGORY_MAPPING[arg.category]
    /\ call.result.s \in YGG_CATEGORY_NAMES

----------------------------------------------------------------------------
(* Properties of URLCache shared by two processes (SpecShared) *)

\* process p has returned from get_cached_url
GotCached(p) == shared.proc[p].op = "get_cached_url" /\ shared.proc[p].pc = "idle"

\* C37: whatever the interleaving of the steps of save_url and get_cached_url
\* of two processes, a get_cached_url call that returns has raised nothing and
\* returns None or a URL that one of the save_url calls was given, whole.
C37_SharedCacheReads ==
    \A p \in Procs : GotCached(p) =>
       /\ shared.proc[p].result.tag # "raise"
       /\ \/ shared.proc[p].result = None
          \/ /\ shared.proc[p].result.tag = "str"
             /\ shared.proc[p].result.url \in shared.given

\* get_cached_url of one process has read the text of one save_url followed by
\* the end of the longer text that a save_url of the other process wrote in
\* the meantime, and has returned None
C37_Witness ==
    \E p \in Procs : \E u, v \in SaveUrls :
       /\ GotCached(p)
       /\ Len(v) > Len(u)
       /\ shared.proc[p].buf =
             dump(u, now) \o SubSeq(dump(v, now), Len(dump(u, now)) + 1, Len(dump(v, now)))
       /\ shared.proc[p].result = None

====
